---- MODULE Spec2Model ----
(***************************************************************************)
(* Access-control layer of the CY Systems backend: the bearer-token        *)
(* verifier (authenticateToken), the role authorizer (authorize), the      *)
(* resource access checker (checkResourceAccess) and the route handlers    *)
(* that read or change the rows these three consult (users, projects,      *)
(* project_tasks, clients, invoices).                                      *)
(*                                                                         *)
(* A request runs on the Node event loop: the code between two awaited     *)
(* persistence queries is one atomic step, and every awaited query is a    *)
(* point where another request may run.  A request's pc names the query   *)
(* it is waiting for.  Every query may throw (persistence failure).        *)
(***************************************************************************)
EXTENDS Integers, Sequences, FiniteSets, TLC

VARIABLES
  users,          \* rows of table users: [id, role, is_active, first_name, salary]
  projects,       \* rows of table projects: [id, manager_id, status, client_id]
  project_tasks,  \* rows of table project_tasks: [project_id, assigned_to]
  clients,        \* rows of table clients: [id, email]
  invoices,       \* rows of table invoices: [id, created_by, invoice_number,
                  \*                          client_id, status]
  subscriptions,  \* rows of table subscriptions: [id, client_id, status]
  nextProjectId,  \* AUTO_INCREMENT counter of table projects
  reqs,           \* the requests being handled, one per slot
  nreq,           \* number of requests received so far
  products,           \* rows of table products: [id, product_code, current_stock]
  purchase_lots,      \* rows of table purchase_lots: [id, lot_number]
  purchase_lot_items, \* rows of table purchase_lot_items: [lot_id, item]
  sales,              \* rows of table sales: [id, sale_number]
  sale_items,         \* rows of table sale_items: [sale_id, item]
  stock_movements,    \* rows of table stock_movements: [reference_id, item]
  invoice_items,      \* rows of table invoice_items: [invoice_id, item]
  nextId              \* AUTO_INCREMENT counters of the other tables, by table

\* The tables of the inventory and invoicing routes
inventory == <<products, purchase_lots, purchase_lot_items, sales, sale_items,
               stock_movements, invoice_items, nextId>>

store == <<users, projects, project_tasks, clients, invoices, nextProjectId,
           inventory, subscriptions>>
vars  == <<users, projects, project_tasks, clients, invoices, nextProjectId,
           reqs, nreq, inventory, subscriptions>>

----------------------------------------------------------------------------
(* Bounds of the model *)

MaxRequests == 3   \* requests received in one behaviour
MaxInFlight == 2   \* requests handled at the same time
MaxProjects == 2   \* project rows ever inserted (AUTO_INCREMENT ids 1..MaxProjects)
MaxItems    == 2   \* items in the body of a lot, a sale or an invoice
MaxLots     == 2   \* purchase-lot requests of the strictly sequential runs

Slots      == 1..MaxInFlight

----------------------------------------------------------------------------
(* Values *)

Roles   == {"admin", "manager", "employee", "client"}
NULL    == 0
NaN     == -1

\* req.user before authenticateToken attaches a row
NoUser == [id |-> NULL, role |-> "none", is_active |-> FALSE]

\* parseInt(id) of a path parameter
ParseInt(s) ==
  CASE s = "1" -> 1
    [] s = "2" -> 2
    [] s = "3" -> 3
    [] OTHER   -> NaN

\* MySQL's comparison of an integer column with a string parameter: the string
\* is cast to a number, a non-numeric string to 0
SqlInt(s) ==
  CASE s = "1" -> 1
    [] s = "2" -> 2
    [] s = "3" -> 3
    [] OTHER   -> 0

----------------------------------------------------------------------------
(* Bearer credentials.  A header is a sequence of chunks; " " is the space *)
(* character, every other chunk is a run of non-space characters.          *)

NoHeader == <<"undefined">>

\* The headers of the sessions of the four users
ManagerHeader  == <<"Bearer", " ", "jwt2">>
EmployeeHeader == <<"Bearer", " ", "jwt3">>
AdminHeader    == <<"Bearer", " ", "jwt1">>
ClientHeader   == <<"Bearer", " ", "jwt4">>

\* Tokens signed for the users 1..3 (payload userId and the role at issuance)
ValidTokens == {"jwt1", "jwt2", "jwt3"}

Headers ==
  { NoHeader,
    <<"Bearer">>,
    <<"Bearer", " ">>,
    <<"Bearer", " ", " ", "jwt1">>,
    <<"Bearer", " ", "forged">> }
  \cup { <<"Bearer", " ", t>> : t \in ValidTokens }

\* String.prototype.split(' '): the pieces between the spaces, empty pieces kept
RECURSIVE Split(_)
Split(h) ==
  IF \A i \in 1..Len(h) : h[i] # " "
    THEN <<h>>
    ELSE LET k == CHOOSE i \in 1..Len(h) :
                    h[i] = " " /\ \A j \in 1..(i-1) : h[j] # " "
         IN  <<SubSeq(h, 1, k-1)>> \o Split(SubSeq(h, k+1, Len(h)))

\* Variant: the first piece (index 0) is taken for the token
BearerTokenFirstPiece(h) ==
  IF h = NoHeader THEN <<>> ELSE Split(h)[1]

\* authHeader && authHeader.split(' ')[1]: <<>> stands for every falsy value
\* (undefined header, undefined second piece, empty string)
BearerToken(h) ==
  IF h = NoHeader THEN <<>>
  ELSE LET parts == Split(h)
       IN  IF Len(parts) < 2 THEN <<>> ELSE parts[2]

\* jwt.verify(token, secret): the decoded payload, or "throws"
TokenPayload(t) ==
  CASE t = "jwt1" -> [userId |-> 1, role |-> "admin"]
    [] t = "jwt2" -> [userId |-> 2, role |-> "manager"]
    [] t = "jwt3" -> [userId |-> 3, role |-> "employee"]
    [] t = "jwt4" -> [userId |-> 4, role |-> "client"]

JwtVerifies(tok) == Len(tok) = 1 /\ tok[1] \in ValidTokens \cup {"jwt4"}
JwtVerify(tok)   == TokenPayload(tok[1])

----------------------------------------------------------------------------
(* Generated identifiers.  An identifier is a sequence of chunks: a literal *)
(* of the source ("PRD", "CAT", "LOT", "SALE", "INV"), "-", a decimal digit *)
(* or a letter.  A number is held as the decimal digits String(n) gives,   *)
(* without leading zeros, so that it keeps every digit it has.              *)

Digits == <<"0", "1", "2", "3", "4", "5", "6", "7", "8", "9">>

IsDigit(c) == \E i \in 1..10 : Digits[i] = c

DigitValue(c) == (CHOOSE i \in 1..10 : Digits[i] = c) - 1

\* String(n) of a non-negative integer
RECURSIVE Decimal(_)
Decimal(n) ==
  IF n < 10 THEN <<Digits[n + 1]>>
  ELSE Decimal(n \div 10) \o <<Digits[(n % 10) + 1]>>

\* String.prototype.padStart(width, '0'): pads, never cuts
RECURSIVE PadStart(_, _)
PadStart(d, width) ==
  IF Len(d) >= width THEN d ELSE PadStart(<<"0">> \o d, width)

\* The digits a string starts with (what parseInt reads)
RECURSIVE LeadingDigits(_)
LeadingDigits(str) ==
  IF str = <<>> \/ ~IsDigit(Head(str)) THEN <<>>
  ELSE <<Head(str)>> \o LeadingDigits(Tail(str))

RECURSIVE StripZeros(_)
StripZeros(d) ==
  IF Len(d) > 1 /\ Head(d) = "0" THEN StripZeros(Tail(d)) ELSE d

\* parseInt(str) || 0: NaN (no leading digit) and 0 both give 0
ParseIntOrZero(str) ==
  IF LeadingDigits(str) = <<>> THEN <<"0">> ELSE StripZeros(LeadingDigits(str))

\* lastNumber + 1
RECURSIVE PlusOne(_)
PlusOne(d) ==
  IF d = <<>> THEN <<"1">>
  ELSE LET front == SubSeq(d, 1, Len(d) - 1)
           last  == d[Len(d)]
       IN  IF last = "9" THEN PlusOne(front) \o <<"0">>
           ELSE front \o <<Digits[DigitValue(last) + 2]>>

\* String.prototype.split(sep): the pieces between the separators
RECURSIVE SplitBy(_, _)
SplitBy(str, sep) ==
  IF \A i \in 1..Len(str) : str[i] # sep
    THEN <<str>>
    ELSE LET k == CHOOSE i \in 1..Len(str) :
                    str[i] = sep /\ \A j \in 1..(i-1) : str[j] # sep
         IN  <<SubSeq(str, 1, k-1)>> \o SplitBy(SubSeq(str, k+1, Len(str)), sep)

\* code LIKE 'prefix%'
Like(code, prefix) ==
  Len(code) >= Len(prefix) /\ SubSeq(code, 1, Len(prefix)) = prefix

\* lastCode.replace(prefix, '') of a code that starts with the prefix
ReplacePrefix(code, prefix) == SubSeq(code, Len(prefix) + 1, Len(code))

\* Order of the characters in the collation of ORDER BY: '-' before the
\* digits, the digits before the letters
Collate(c) ==
  IF c = "-" THEN 0 ELSE IF IsDigit(c) THEN 1 + DigitValue(c) ELSE 11

\* ORDER BY code DESC LIMIT 1 over codes that agree on their first i-1
\* chunks: the greatest in string order (a string that ends is before its
\* extensions)
RECURSIVE Greatest(_, _)
Greatest(codes, i) ==
  LET going == {c \in codes : Len(c) >= i} IN
  IF going = {} THEN CHOOSE c \in codes : TRUE
  ELSE LET ranks == {Collate(c[i]) : c \in going}
           top   == CHOOSE k \in ranks : \A j \in ranks : j <= k
       IN  Greatest({c \in going : Collate(c[i]) = top}, i + 1)

\* SELECT code FROM table WHERE code LIKE 'prefix%' ORDER BY code DESC LIMIT 1
SelectLastLike(codes, prefix) ==
  LET matching == {c \in codes : Like(c, prefix)} IN
  IF matching = {} THEN {} ELSE {Greatest(matching, Len(prefix) + 1)}

\* new Date().getFullYear() and Date.now() (milliseconds, thirteen digits)
Year == <<"2", "0", "2", "4">>

Timestamps ==
  { <<"1", "7", "3", "0", "8", "8", "7", "2", "0", "0", "0", "0", "0">>,
    <<"1", "7", "3", "0", "8", "8", "7", "2", "0", "0", "0", "0", "1">> }

\* const prefix = categoryId ? `CAT${String(categoryId).padStart(3, '0')}` : 'PRD'
ProductPrefix(categoryId) ==
  IF categoryId = NULL THEN <<"PRD">>
  ELSE <<"CAT">> \o PadStart(Decimal(categoryId), 3)

LotPrefix     == <<"LOT">> \o Year
SalePrefix    == <<"SALE">> \o Year
InvoicePrefix == <<"INV", "-">> \o Year

\* let nextNumber = 1; if (last.length > 0) nextNumber = (parseInt(...) || 0) + 1
NextNumber(last, prefix) ==
  IF last = {} THEN <<"1">>
  ELSE LET lastCode == CHOOSE c \in last : TRUE
       IN  PlusOne(ParseIntOrZero(ReplacePrefix(lastCode, prefix)))

\* generateProductCode(categoryId), the try block, on the rows of products
GenerateProductCode(categoryId) ==
  LET prefix == ProductPrefix(categoryId)
      last   == SelectLastLike({p.product_code : p \in products}, prefix)
  IN  prefix \o PadStart(NextNumber(last, prefix), 6)

\* Variant: the numbers held by requests that have not inserted yet count as
\* taken
GenerateLotNumberReserved ==
  LET held == {reqs[s].code : s \in {s \in Slots : reqs[s].pc = "pl_insert"}}
      last == SelectLastLike({l.lot_number : l \in purchase_lots} \cup held, LotPrefix)
  IN  LotPrefix \o PadStart(NextNumber(last, LotPrefix), 4)

\* generateLotNumber(), the try block, on the rows of purchase_lots
GenerateLotNumber ==
  LET last == SelectLastLike({l.lot_number : l \in purchase_lots}, LotPrefix)
  IN  LotPrefix \o PadStart(NextNumber(last, LotPrefix), 4)

\* generateSaleNumber(), the try block, on the rows of sales
GenerateSaleNumber ==
  LET last == SelectLastLike({l.sale_number : l \in sales}, SalePrefix)
  IN  SalePrefix \o PadStart(NextNumber(last, SalePrefix), 4)

\* Variant: the last number found is returned again, without the increment
GenerateInvoiceNumberLast ==
  LET last == SelectLastLike({i.invoice_number : i \in invoices}, InvoicePrefix)
  IN  IF last = {} THEN InvoicePrefix \o <<"-", "0", "0", "0", "1">>
      ELSE CHOOSE c \in last : TRUE

\* GET /invoices/generate-number, the try block, on the rows of invoices:
\* parseInt(invoice_number.split('-')[2]) || 0
GenerateInvoiceNumber ==
  LET last == SelectLastLike({i.invoice_number : i \in invoices}, InvoicePrefix)
      nextNumber ==
        IF last = {} THEN <<"1">>
        ELSE LET parts == SplitBy(CHOOSE c \in last : TRUE, "-")
             IN  PlusOne(IF Len(parts) < 3 THEN <<"0">> ELSE ParseIntOrZero(parts[3]))
  IN  InvoicePrefix \o <<"-">> \o PadStart(nextNumber, 4)

\* The catch blocks of the three generate functions: prefix and Date.now()
FallbackProductCode(now) == <<"PRD">> \o now
FallbackLotNumber(now)   == <<"LOT">> \o now
FallbackSaleNumber(now)  == <<"SALE">> \o now

----------------------------------------------------------------------------
(* Routes and requests *)

GetProject      == "GET /projects/:id"
PutProject      == "PUT /projects/:id"
PostProject     == "POST /projects"
DeleteProject   == "DELETE /projects/:id"
PostTask        == "POST /projects/:id/tasks"
GetProjects     == "GET /projects"
PutUser         == "PUT /users/:id"
PutEmployee     == "PUT /employees/:id"
DeleteUser      == "DELETE /users/:id"
Deactivate      == "POST /employees/:id/deactivate"
Activate        == "POST /employees/:id/activate"
\* checkResourceAccess is exported for any route; these three stand for a route
\* '/:id' mounted behind checkResourceAccess('client' | 'invoice' | 'equipment')
\* whose handler answers 200
GuardedClient   == "checkResourceAccess('client')"
GuardedInvoice  == "checkResourceAccess('invoice')"
GuardedOther    == "checkResourceAccess('equipment')"

\* Inventory (mounted under /api/equipment), invoices and clients
PostProduct      == "POST /equipment/products"
PostPurchaseLot  == "POST /equipment/purchase-lots"
PostSale         == "POST /equipment/sales"
GetInvoiceNumber == "GET /invoices/generate-number"
PostInvoice      == "POST /invoices"
PutInvoice       == "PUT /invoices/:id"
PostClient       == "POST /clients"
DeleteClient     == "DELETE /clients/:id"

\* Status changes of subscriptions and invoices
Suspend     == "POST /subscriptions/:id/suspend"
Reactivate  == "POST /subscriptions/:id/reactivate"
Cancel      == "POST /subscriptions/:id/cancel"
SendInvoice == "POST /invoices/:id/send"
MarkPaid    == "POST /invoices/:id/mark-paid"

SubscriptionStatusRoutes == {Suspend, Reactivate, Cancel}
InvoiceStatusRoutes      == {SendInvoice, MarkPaid}

\* The status the route's UPDATE writes, which is also the one its 400 tests
TargetStatus(route) ==
  CASE route = Suspend     -> "suspended"
    [] route = Reactivate  -> "active"
    [] route = Cancel      -> "cancelled"
    [] route = SendInvoice -> "sent"
    [] route = MarkPaid    -> "paid"

UserRoutes    == {PutUser, DeleteUser, Deactivate, Activate}
ProjectRoutes == {GetProject, PutProject, PostProject, DeleteProject, PostTask}
GuardedRoutes == {GuardedClient, GuardedInvoice, GuardedOther}

\* authorize(...roles) as mounted on each route; {} when the route has none
AuthorizeRoles(route) ==
  CASE route \in {PostProject, DeleteProject, Deactivate, Activate} -> {"admin", "manager"}
    [] route \in {PostProduct, PostPurchaseLot, PostInvoice, PostClient} -> {"admin", "manager"}
    [] route = DeleteClient -> {"admin", "manager"}
    [] route \in SubscriptionStatusRoutes \cup InvoiceStatusRoutes -> {"admin", "manager"}
    [] route = DeleteUser -> {"admin"}
    [] OTHER -> {}

\* checkResourceAccess(resourceType) as mounted on each route; "none" without it
ResourceType(route) ==
  CASE route \in {GetProject, PutProject} -> "project"
    [] route = GuardedClient  -> "client"
    [] route = GuardedInvoice -> "invoice"
    [] route = GuardedOther   -> "equipment"
    [] OTHER -> "none"

EmptyBody ==
  [name |-> "undefined", client_id |-> NULL, manager_id |-> NULL,
   status |-> "undefined", assigned_to |-> NULL,
   role |-> "undefined", isActive |-> "undefined",
   category_id |-> NULL, items |-> 0, invoice_number |-> <<>>,
   email |-> "undefined", firstName |-> "undefined", salary |-> "undefined"]

\* invoice_number values a caller may send to POST /invoices
InvoiceNumbers ==
  { InvoicePrefix \o <<"-", "0", "0", "0", "1">>,
    InvoicePrefix \o <<"-", "9", "9", "9", "9">>,
    InvoicePrefix \o <<"-", "1", "0", "0", "0", "0">> }

\* Request bodies a caller may send to each route
Bodies(route) ==
  CASE route = PostProject ->
         { [EmptyBody EXCEPT !.name = "p", !.client_id = c, !.manager_id = m] :
             c \in {NULL, 1, 2}, m \in {NULL, 3} }
         \cup { [EmptyBody EXCEPT !.name = ""] }
    [] route = PutProject ->
         { [EmptyBody EXCEPT !.status = s] : s \in {"undefined", "completed", "bogus"} }
         \cup { [EmptyBody EXCEPT !.name = ""] }
    [] route = PostTask ->
         { [EmptyBody EXCEPT !.name = "t", !.assigned_to = a] : a \in {2, 3} }
         \cup { [EmptyBody EXCEPT !.name = ""] }
    [] route = PutUser ->
         { [EmptyBody EXCEPT !.role = r] : r \in {"undefined", "admin", "client", "root"} }
         \cup { [EmptyBody EXCEPT !.isActive = a] : a \in {"true", "false"} }
    [] route = PostProduct ->
         { [EmptyBody EXCEPT !.name = "p", !.category_id = c] : c \in {NULL, 1} }
    [] route \in {PostPurchaseLot, PostSale} ->
         { [EmptyBody EXCEPT !.items = n] : n \in {0, MaxItems} }
    [] route = PostInvoice ->
         { [EmptyBody EXCEPT !.client_id = 1, !.invoice_number = i, !.items = n] :
             i \in InvoiceNumbers, n \in {0, MaxItems} }
    [] route = PutInvoice ->
         { [EmptyBody EXCEPT !.items = n] : n \in {0, 1} }
    [] route = PostClient ->
         { [EmptyBody EXCEPT !.name = "c", !.email = e] : e \in {"a@b.com", "A@B.com", "c@d.com", "bad"} }
    [] OTHER -> {EmptyBody}

\* Bodies with profile fields a caller may send to PUT /users/:id and to
\* PUT /employees/:id (which names the first field first_name and the third
\* is_active)
ProfileBodies(route) ==
  { [EmptyBody EXCEPT !.firstName = f, !.role = ro, !.isActive = a, !.salary = sa] :
      f \in {"undefined", "n"}, ro \in {"undefined", "admin"},
      a \in {"undefined", "false"}, sa \in {"undefined", "9"} }

\* Path parameters a caller may send to each route
Paths(route) ==
  CASE route = GetProject -> {"1", "2", "x"}
    [] route \in {PutProject, DeleteProject, PostTask} -> {"1", "2"}
    [] route = PutUser -> {"1", "2", "3", "x"}
    [] route \in {DeleteUser, Deactivate, Activate} -> {"1", "2", "3"}
    [] route = GuardedClient -> {"1", "2"}
    [] route = GuardedInvoice -> {"1", "2", "3"}
    [] route = PutInvoice -> {"1", "3"}
    [] route = DeleteClient -> {"1", "2"}
    [] route = PutEmployee -> {"2", "3"}
    [] route \in SubscriptionStatusRoutes -> {"1", "2", "3"}
    [] route \in InvoiceStatusRoutes -> {"1", "3"}
    [] OTHER -> {"1"}

Idle ==
  [pc |-> "idle", route |-> "none", header |-> NoHeader, id |-> "1",
   body |-> EmptyBody, user |-> NoUser, status |-> 0, by |-> "none",
   lookup |-> "none", queries |-> 0, racQueries |-> 0, access |-> "none",
   handlerRan |-> FALSE, wrote |-> FALSE, insertId |-> NULL,
   validated |-> FALSE, code |-> <<>>, fallback |-> FALSE, left |-> 0,
   refs |-> 0, profile |-> FALSE, list |-> {}, seen |-> "none"]

\* A request as it arrives.  Its path parameter and body are recorded from the
\* moment the first code that reads them runs (Read): nothing before that
\* depends on them.
NewRequest(route, header) ==
  [Idle EXCEPT !.pc = "start", !.route = route, !.header = header]

Read(q, id, body) == [q EXCEPT !.id = id, !.body = body]

\* res.status(s).json(...) sent by the component `by`
Respond(q, by, s) == [q EXCEPT !.pc = "done", !.status = s, !.by = by, !.body = EmptyBody]

\* `await query(...)`: the request waits at `pc` for the persistence layer
Await(q, pc) == [q EXCEPT !.pc = pc, !.queries = @ + 1]

----------------------------------------------------------------------------
(* The queries of the middleware, on the current rows *)

\* SELECT id, email, role, is_active FROM users WHERE id = ?
SelectUserById(userId) == {u \in users : u.id = userId}

\* SELECT id FROM projects WHERE id = ? AND (manager_id = ? OR id IN
\*   (SELECT project_id FROM project_tasks WHERE assigned_to = ?))
SelectProjectAccess(resourceId, userId) ==
  {p \in projects :
     /\ p.id = SqlInt(resourceId)
     /\ \/ p.manager_id = userId
        \/ p.id \in {t.project_id : t \in {t \in project_tasks : t.assigned_to = userId}}}

\* SELECT id FROM clients WHERE id = ?
SelectClientAccess(resourceId, userId) ==
  {c \in clients : c.id = SqlInt(resourceId)}

\* SELECT id FROM invoices WHERE id = ? AND created_by = ?
SelectInvoiceAccess(resourceId, userId) ==
  {i \in invoices : i.id = SqlInt(resourceId) /\ i.created_by = userId}

----------------------------------------------------------------------------
(* Field validation (express-validator) and the handlers' synchronous      *)
(* prefixes, up to their first awaited query                               *)

\* body('email').isEmail().normalizeEmail(): the address in lower case
IsEmail(e) == e \in {"a@b.com", "A@B.com", "c@d.com"}

NormalizeEmail(e) == IF e = "A@B.com" THEN "a@b.com" ELSE e

\* validationResult(req).isEmpty() for the validators mounted on the route
Valid(route, body) ==
  CASE route = PostProject -> body.name \notin {"undefined", ""}
    [] route = PutProject  -> /\ body.name # ""
                              /\ body.status \in {"undefined", "planning", "in_progress",
                                                  "on_hold", "completed", "cancelled"}
    [] route = PostTask    -> body.name \notin {"undefined", ""}
    [] route = PutUser     -> body.role \in Roles \cup {"undefined"}
    [] route = PutEmployee -> body.role \in {"admin", "manager", "employee", "undefined"}
    [] route = PostProduct -> body.name \notin {"undefined", ""}
    [] route = PostClient  -> /\ body.name \notin {"undefined", ""}
                              /\ IsEmail(body.email)
    [] OTHER -> TRUE

\* The routes whose handler starts with validationResult(req)
Validates(route) ==
  route \in {PutProject, PostProject, PostTask, PutUser, PutEmployee, PostProduct,
              PostPurchaseLot, PostSale, PostInvoice, PutInvoice, PostClient}

\* Variant: the role of the actor is not looked at
UserUpdateFieldsAnyActor(body, actorRole) ==
  (IF body.firstName # "undefined" THEN {"first_name"} ELSE {})
  \cup (IF body.role # "undefined" THEN {"role"} ELSE {})
  \cup (IF body.salary # "undefined" THEN {"salary"} ELSE {})
  \cup (IF body.isActive # "undefined" THEN {"is_active"} ELSE {})

\* PUT /users/:id: the updateFields the handler builds for the acting role
UserUpdateFields(body, actorRole) ==
  (IF body.firstName # "undefined" THEN {"first_name"} ELSE {})
  \cup (IF body.role # "undefined" /\ actorRole = "admin" THEN {"role"} ELSE {})
  \cup (IF body.salary # "undefined" /\ actorRole = "admin" THEN {"salary"} ELSE {})
  \cup (IF body.isActive # "undefined" /\ actorRole = "admin" THEN {"is_active"} ELSE {})

\* PUT /employees/:id: the updateFields the handler builds, for any actor
EmployeeUpdateFields(body) ==
  (IF body.firstName # "undefined" THEN {"first_name"} ELSE {})
  \cup (IF body.role # "undefined" THEN {"role"} ELSE {})
  \cup (IF body.salary # "undefined" THEN {"salary"} ELSE {})
  \cup (IF body.isActive # "undefined" THEN {"is_active"} ELSE {})

\* UPDATE users SET fields = values of the body WHERE id = ?
UpdateUser(u, fields, body) ==
  [u EXCEPT !.first_name = IF "first_name" \in fields THEN body.firstName ELSE @,
            !.role = IF "role" \in fields THEN body.role ELSE @,
            !.salary = IF "salary" \in fields THEN body.salary ELSE @,
            !.is_active = IF "is_active" \in fields THEN body.isActive = "true" ELSE @]

\* PUT /projects/:id: the updateFields the handler builds
ProjectUpdateFields(body) ==
  (IF body.name \notin {"undefined", ""} THEN {"name"} ELSE {})
  \cup (IF body.status \notin {"undefined", ""} THEN {"status"} ELSE {})

\* The route handler from its first line to its first awaited query
HandlerEnter(q0, id, body) ==
  LET q == [Read(q0, id, body) EXCEPT !.handlerRan = TRUE,
                                      !.validated = Validates(q0.route)] IN
  CASE q.route = GetProject -> Await(q, "gp_project")
    [] q.route = GetProjects -> Await(q, "gl_select")
    [] q.route \in SubscriptionStatusRoutes \cup InvoiceStatusRoutes -> Await(q, "st_select")
    [] q.route = PutProject ->
         IF ~Valid(q.route, q.body) THEN Respond(q, "handler", 400)
         ELSE Await(q, "up_exists")
    [] q.route = PostProject ->
         IF ~Valid(q.route, q.body) THEN Respond(q, "handler", 400)
         ELSE IF q.body.client_id # NULL THEN Await(q, "cp_client")
         ELSE IF q.body.manager_id # NULL THEN Await(q, "cp_manager")
         ELSE Await(q, "cp_insert")
    [] q.route = DeleteProject -> Await(q, "dp_exists")
    [] q.route = PostTask ->
         IF ~Valid(q.route, q.body) THEN Respond(q, "handler", 400)
         ELSE Await(q, "ct_project")
    [] q.route = PutUser ->
         IF ~Valid(q.route, q.body) THEN Respond(q, "handler", 400)
         ELSE IF q.user.role # "admin" /\ q.user.id # ParseInt(q.id)
           THEN Respond([q EXCEPT !.access = "denied"], "handler", 403)
         ELSE Await(q, "uu_exists")
    [] q.route = PutEmployee ->
         IF ~Valid(q.route, q.body) THEN Respond(q, "handler", 400)
         ELSE Await(q, "ue_exists")
    [] q.route = DeleteUser ->
         IF q.user.id = ParseInt(q.id) THEN Respond(q, "handler", 400)
         ELSE Await(q, "du_exists")
    [] q.route = Deactivate -> Await(q, "de_select")
    [] q.route = Activate   -> Await(q, "ac_select")
    [] q.route = PostProduct ->
         IF ~Valid(q.route, q.body) THEN Respond(q, "handler", 400)
         ELSE Await(q, "pr_alloc")
    [] q.route = PostPurchaseLot -> Await(q, "pl_alloc")
    [] q.route = PostSale -> Await(q, "sa_alloc")
    [] q.route = GetInvoiceNumber -> Await(q, "in_alloc")
    [] q.route = PostInvoice -> Await(q, "iv_client")
    [] q.route = PutInvoice -> Await(q, "ui_exists")
    [] q.route = PostClient ->
         IF ~Valid(q.route, q.body) THEN Respond(q, "handler", 400)
         ELSE Await(q, "cc_email")
    [] q.route = DeleteClient -> Await(q, "dc_exists")
    [] OTHER -> Respond(q, "handler", 200)

----------------------------------------------------------------------------
(* The middleware *)

\* Variant: only the absence of the row is checked, not is_active
UserRejectedAbsentOnly(rows) == rows = {}

\* authenticateToken, line 96: the looked-up rows do not authenticate
UserRejected(rows) ==
  rows = {} \/ \E u \in rows : ~u.is_active

\* Variant: the role of the token payload is trusted
AttachedUserTokenRole(row, decoded) == [row EXCEPT !.role = decoded.role]

\* authenticateToken, line 100: req.user = users[0]
AttachedUser(row, decoded) == row

\* Variant: a deny-list of the lowest role instead of the declared allow-list
RoleNotClient(roles, user) == user.role # "client"

\* authorize(...roles), line 114: roles.includes(req.user.role)
RoleIncluded(roles, user) == user.role \in roles

\* authorize(...roles), returned middleware
Authorize(roles, q, id, body) ==
  IF q.user = NoUser THEN Respond(q, "authorize", 401)
  ELSE IF ~RoleIncluded(roles, q.user)
    THEN Respond([q EXCEPT !.access = "denied"], "authorize", 403)
  ELSE HandlerEnter([q EXCEPT !.access = "granted"], id, body)

\* Variant: no short-circuit, the administrator is looked up like everyone
AdminBypassNever(userRole) == FALSE

\* checkResourceAccess, line 131: the admin short-circuit
AdminBypass(userRole) == userRole = "admin"

\* checkResourceAccess up to its awaited lookup
CheckResourceAccessEnter(q, id, body) ==
  IF AdminBypass(q.user.role) THEN HandlerEnter([q EXCEPT !.access = "granted"], id, body)
  ELSE [Await(Read(q, id, body), "rac") EXCEPT !.racQueries = @ + 1]

\* Variant: the task-assignment subquery is dropped
HasProjectAccessManagerOnly(resourceId, userId) ==
  \E p \in projects : p.id = SqlInt(resourceId) /\ p.manager_id = userId

\* Variant: a decision already given to the same identity for the same project
\* is reused instead of running the query again
HasProjectAccessRemembered(resourceId, userId) ==
  LET given == {s \in Slots : /\ reqs[s].pc = "done"
                               /\ ResourceType(reqs[s].route) = "project"
                               /\ reqs[s].user.id = userId
                               /\ reqs[s].id = resourceId
                               /\ reqs[s].access \in {"granted", "denied"}}
  IN  IF given # {} THEN \E s \in given : reqs[s].access = "granted"
      ELSE SelectProjectAccess(resourceId, userId) # {}

\* Variant: every identity is let through for a client
HasClientAccessAlways(resourceId, userId) == TRUE

\* Variant: the invoice only has to exist, whoever created it
HasInvoiceAccessAnyCreator(resourceId, userId) ==
  \E i \in invoices : i.id = SqlInt(resourceId)

\* checkResourceAccess, the switch on resourceType: hasAccess
HasProjectAccess(resourceId, userId) == SelectProjectAccess(resourceId, userId) # {}
HasClientAccess(resourceId, userId)  == SelectClientAccess(resourceId, userId) # {}
HasInvoiceAccess(resourceId, userId) == SelectInvoiceAccess(resourceId, userId) # {}

HasAccess(resourceType, resourceId, userId) ==
  CASE resourceType = "project" -> HasProjectAccess(resourceId, userId)
    [] resourceType = "client"  -> HasClientAccess(resourceId, userId)
    [] resourceType = "invoice" -> HasInvoiceAccess(resourceId, userId)
    [] OTHER -> TRUE

\* next() of authenticateToken: the middleware mounted after it on the route
AfterAuthenticate(q, id, body) ==
  IF AuthorizeRoles(q.route) # {} THEN Authorize(AuthorizeRoles(q.route), q, id, body)
  ELSE IF ResourceType(q.route) # "none" THEN CheckResourceAccessEnter(q, id, body)
  ELSE HandlerEnter(q, id, body)

\* authenticateToken up to its awaited lookup
AuthenticateTokenEnter(q) ==
  LET token == BearerToken(q.header) IN
  IF token = <<>> THEN Respond(q, "authenticateToken", 401)
  ELSE IF ~JwtVerifies(token) THEN Respond(q, "authenticateToken", 403)
  ELSE Await(q, "auth")

----------------------------------------------------------------------------
(* Initial state: an administrator, a manager and an employee, one project *)
(* managed by the manager, one client, an invoice created by the manager   *)
(* and one created by the administrator                                    *)

\* An invoice number of the year before
LastYearInvoice(n) ==
  <<"INV", "-", "2", "0", "2", "3", "-">> \o PadStart(Decimal(n), 4)

\* The purchase lots n strictly sequential POST /purchase-lots of the year
\* have persisted, each answered before the next arrived
IssuedLots(n) ==
  { [id |-> k, lot_number |-> LotPrefix \o PadStart(Decimal(k), 4)] : k \in 1..n }

InitAfter(lots) ==
  /\ users = { [id |-> 1, role |-> "admin",    is_active |-> TRUE, first_name |-> "a",
                salary |-> "1"],
               [id |-> 2, role |-> "manager",  is_active |-> TRUE, first_name |-> "a",
                salary |-> "1"],
               [id |-> 3, role |-> "employee", is_active |-> TRUE, first_name |-> "a",
                salary |-> "1"],
               [id |-> 4, role |-> "client",   is_active |-> TRUE, first_name |-> "a",
                salary |-> "1"] }
  /\ projects = { [id |-> 1, manager_id |-> 2, status |-> "planning", client_id |-> 1] }
  /\ project_tasks = {}
  /\ clients = { [id |-> 1, email |-> "a@b.com"] }
  /\ invoices = { [id |-> 1, created_by |-> 2, invoice_number |-> LastYearInvoice(1),
                   client_id |-> 1, status |-> "draft"],
                  [id |-> 2, created_by |-> 1, invoice_number |-> LastYearInvoice(2),
                   client_id |-> 1, status |-> "draft"] }
  /\ subscriptions = { [id |-> 1, client_id |-> 1, status |-> "active"],
                       [id |-> 2, client_id |-> 1, status |-> "expired"] }
  /\ nextProjectId = 2
  /\ reqs = [r \in Slots |-> Idle]
  /\ nreq = 0
  /\ products = { [id |-> 1, product_code |-> ProductPrefix(1) \o PadStart(Decimal(1), 6),
                    current_stock |-> 2] }
  /\ purchase_lots = IssuedLots(lots)
  /\ purchase_lot_items = {}
  /\ sales = {}
  /\ sale_items = {}
  /\ stock_movements = {}
  /\ invoice_items = { [invoice_id |-> 1, item |-> 1] }
  /\ nextId = [products |-> 2, purchase_lots |-> lots + 1, sales |-> 1, invoices |-> 3,
               clients |-> 2]

Init == InitAfter(0)

----------------------------------------------------------------------------
(* Actions.  Set(r, q) replaces the request of slot r.                     *)

Set(r, q) == reqs' = [reqs EXCEPT ![r] = q]

Waiting(r, pc) == reqs[r].pc = pc

InFlight(route) ==
  {s \in Slots : reqs[s].route = route /\ reqs[s].pc \notin {"idle", "done"}}

\* A request for one of `routes` arrives and authenticateToken runs up to its
\* lookup
Request(r, routes) ==
  /\ reqs[r].pc \in {"idle", "done"}
  /\ nreq < MaxRequests
  /\ \E route \in routes, header \in Headers :
       /\ route = PostProject =>
            nextProjectId + Cardinality(InFlight(PostProject)) <= MaxProjects
       /\ Set(r, AuthenticateTokenEnter(NewRequest(route, header)))
  /\ nreq' = nreq + 1
  /\ UNCHANGED store

\* A request for one of `routes` arrives from a caller that holds one of
\* `headers`, as long as fewer than `most` requests have arrived
Call(r, routes, headers, most) ==
  /\ reqs[r].pc \in {"idle", "done"}
  /\ nreq < most
  /\ \E route \in routes, header \in headers :
       Set(r, AuthenticateTokenEnter(NewRequest(route, header)))
  /\ nreq' = nreq + 1
  /\ UNCHANGED store

\* The same, strictly sequentially: no other request is being processed
CallInTurn(r, routes, headers, most) ==
  /\ \A s \in Slots : reqs[s].pc \in {"idle", "done"}
  /\ Call(r, routes, headers, most)

\* The same, with a body that carries profile fields
CallProfile(r, routes, headers, most) ==
  /\ \A s \in Slots : reqs[s].pc \in {"idle", "done"}
  /\ nreq < most
  /\ \E route \in routes, header \in headers :
       Set(r, AuthenticateTokenEnter([NewRequest(route, header) EXCEPT !.profile = TRUE]))
  /\ nreq' = nreq + 1
  /\ UNCHANGED store

\* What the users lookup found (recorded in the request for the properties)
Found(rows) ==
  IF rows = {} THEN "empty"
  ELSE IF \E u \in rows : ~u.is_active THEN "inactive" ELSE "active"

\* authenticateToken: the users lookup answers (or throws into the catch)
AuthenticateTokenLookup(r) ==
  /\ Waiting(r, "auth")
  /\ LET decoded == JwtVerify(BearerToken(reqs[r].header))
         rows    == SelectUserById(decoded.userId)
         q       == [reqs[r] EXCEPT !.lookup = Found(rows)]
     IN \E threw \in BOOLEAN :
          IF threw
            THEN Set(r, Respond([q EXCEPT !.lookup = "threw"], "authenticateToken", 403))
          ELSE IF UserRejected(rows)
            THEN Set(r, Respond(q, "authenticateToken", 401))
          ELSE \E row \in rows, id \in Paths(q.route),
                  body \in (IF q.profile THEN ProfileBodies(q.route) ELSE Bodies(q.route)) :
                 Set(r, AfterAuthenticate([q EXCEPT !.user = AttachedUser(row, decoded)],
                                          id, body))
  /\ UNCHANGED <<store, nreq>>

\* checkResourceAccess: the ownership lookup answers (or throws into the catch)
CheckResourceAccessLookup(r) ==
  /\ Waiting(r, "rac")
  /\ LET q == reqs[r] IN
     \E threw \in BOOLEAN :
       IF threw THEN Set(r, Respond(q, "checkResourceAccess", 500))
       ELSE IF ~HasAccess(ResourceType(q.route), q.id, q.user.id)
         THEN Set(r, Respond([q EXCEPT !.access = "denied"], "checkResourceAccess", 403))
       ELSE Set(r, HandlerEnter([q EXCEPT !.access = "granted"], q.id, q.body))
  /\ UNCHANGED <<store, nreq>>

\* Variant: the catch undoes the rows the request has written
FailRolledBack(r) ==
  LET mine == reqs[r].insertId IN
  /\ Set(r, Respond(reqs[r], "handler", 500))
  /\ purchase_lots' = {l \in purchase_lots : reqs[r].route = PostPurchaseLot => l.id # mine}
  /\ purchase_lot_items' =
       {i \in purchase_lot_items : reqs[r].route = PostPurchaseLot => i.lot_id # mine}
  /\ sales' = {l \in sales : reqs[r].route = PostSale => l.id # mine}
  /\ sale_items' = {i \in sale_items : reqs[r].route = PostSale => i.sale_id # mine}
  /\ UNCHANGED <<users, projects, project_tasks, clients, invoices, nextProjectId, nreq, subscriptions,
                 products, stock_movements, invoice_items, nextId>>

\* A handler's query throws: the handler's catch answers 500
Fail(r) == Set(r, Respond(reqs[r], "handler", 500)) /\ UNCHANGED <<store, nreq>>

Wrote(q) == [q EXCEPT !.wrote = TRUE]

(* POST /subscriptions/:id/suspend, /reactivate, /cancel and                *)
(* POST /invoices/:id/send, /mark-paid: one handler shape, one per route    *)
\* The rows of the table the route works on
StatusRows(route) == IF route \in SubscriptionStatusRoutes THEN subscriptions ELSE invoices

\* Variant: the status read is never taken for the target
AlreadyInNever(status, route) == FALSE

\* rows[0].status === '<target>'
AlreadyIn(status, route) == status = TargetStatus(route)

\* SELECT id, status FROM <table> WHERE id = ?, and the two early returns
StatusSelect(r, route) ==
  /\ Waiting(r, "st_select")
  /\ reqs[r].route = route
  /\ \/ Fail(r)
     \/ /\ LET rows == {x \in StatusRows(route) : x.id = SqlInt(reqs[r].id)} IN
           IF rows = {} THEN Set(r, Respond(reqs[r], "handler", 404))
           ELSE LET row == CHOOSE x \in rows : TRUE IN
                IF AlreadyIn(row.status, route)
                  THEN Set(r, Respond([reqs[r] EXCEPT !.seen = row.status], "handler", 400))
                ELSE Set(r, Await([reqs[r] EXCEPT !.seen = row.status], "st_update"))
        /\ UNCHANGED <<store, nreq>>

\* UPDATE <table> SET status = "<target>" WHERE id = ?
StatusUpdate(r, route) ==
  /\ Waiting(r, "st_update")
  /\ reqs[r].route = route
  /\ \/ Fail(r)
     \/ /\ LET upd(rows) == { IF x.id = SqlInt(reqs[r].id)
                                THEN [x EXCEPT !.status = TargetStatus(route)] ELSE x :
                              x \in rows }
           IN IF route \in SubscriptionStatusRoutes
                THEN subscriptions' = upd(subscriptions) /\ UNCHANGED invoices
                ELSE invoices' = upd(invoices) /\ UNCHANGED subscriptions
        /\ Set(r, Respond(Wrote(reqs[r]), "handler", 200))
        /\ UNCHANGED <<users, projects, project_tasks, clients, nextProjectId, nreq,
                       inventory>>

(* GET /projects *)
\* line 17: the role whose list is filtered by relation
ListFiltered(userRole) == userRole = "employee"

\* The rows the WHERE clause built for the user keeps
SelectProjects(user) ==
  {p \in projects :
     ListFiltered(user.role) =>
       \/ p.manager_id = user.id
       \/ p.id \in {t.project_id : t \in {t \in project_tasks : t.assigned_to = user.id}}}

GetProjectsSelect(r) ==
  /\ Waiting(r, "gl_select")
  /\ \/ Fail(r)
     \/ /\ Set(r, [Respond(reqs[r], "handler", 200) EXCEPT
                     !.list = {p.id : p \in SelectProjects(reqs[r].user)}])
        /\ UNCHANGED <<store, nreq>>

(* GET /projects/:id *)
GetProjectSelect(r) ==
  /\ Waiting(r, "gp_project")
  /\ \/ Fail(r)
     \/ /\ IF {p \in projects : p.id = SqlInt(reqs[r].id)} = {}
             THEN Set(r, Respond(reqs[r], "handler", 404))
             ELSE Set(r, Await(reqs[r], "gp_tasks"))
        /\ UNCHANGED <<store, nreq>>

GetProjectTasks(r) ==
  /\ Waiting(r, "gp_tasks")
  /\ \/ Fail(r)
     \/ Set(r, Await(reqs[r], "gp_time")) /\ UNCHANGED <<store, nreq>>

GetProjectTimeEntries(r) ==
  /\ Waiting(r, "gp_time")
  /\ \/ Fail(r)
     \/ Set(r, Respond(reqs[r], "handler", 200)) /\ UNCHANGED <<store, nreq>>

(* PUT /projects/:id *)
PutProjectExists(r) ==
  /\ Waiting(r, "up_exists")
  /\ \/ Fail(r)
     \/ /\ IF {p \in projects : p.id = SqlInt(reqs[r].id)} = {}
             THEN Set(r, Respond(reqs[r], "handler", 404))
           ELSE IF ProjectUpdateFields(reqs[r].body) = {}
             THEN Set(r, Respond(reqs[r], "handler", 400))
           ELSE Set(r, Await(reqs[r], "up_update"))
        /\ UNCHANGED <<store, nreq>>

PutProjectUpdate(r) ==
  /\ Waiting(r, "up_update")
  /\ \/ Fail(r)
     \/ /\ projects' = { IF p.id = SqlInt(reqs[r].id) /\ "status" \in ProjectUpdateFields(reqs[r].body)
                           THEN [p EXCEPT !.status = reqs[r].body.status] ELSE p : p \in projects }
        /\ Set(r, Respond(Wrote(reqs[r]), "handler", 200))
        /\ UNCHANGED <<users, project_tasks, clients, invoices, nextProjectId, nreq, subscriptions, inventory>>

(* POST /projects *)
PostProjectClient(r) ==
  /\ Waiting(r, "cp_client")
  /\ \/ Fail(r)
     \/ /\ IF {c \in clients : c.id = reqs[r].body.client_id} = {}
             THEN Set(r, Respond(reqs[r], "handler", 400))
           ELSE IF reqs[r].body.manager_id # NULL
             THEN Set(r, Await(reqs[r], "cp_manager"))
           ELSE Set(r, Await(reqs[r], "cp_insert"))
        /\ UNCHANGED <<store, nreq>>

PostProjectManager(r) ==
  /\ Waiting(r, "cp_manager")
  /\ \/ Fail(r)
     \/ /\ IF {u \in users : u.id = reqs[r].body.manager_id /\ u.role \in {"admin", "manager"}} = {}
             THEN Set(r, Respond(reqs[r], "handler", 400))
             ELSE Set(r, Await(reqs[r], "cp_insert"))
        /\ UNCHANGED <<store, nreq>>

PostProjectInsert(r) ==
  /\ Waiting(r, "cp_insert")
  /\ \/ Fail(r)
     \/ /\ projects' = projects \cup
             { [id |-> nextProjectId, manager_id |-> reqs[r].body.manager_id,
                status |-> "planning", client_id |-> reqs[r].body.client_id] }
        /\ nextProjectId' = nextProjectId + 1
        /\ Set(r, Respond([Wrote(reqs[r]) EXCEPT !.insertId = nextProjectId], "handler", 201))
        /\ UNCHANGED <<users, project_tasks, clients, invoices, nreq, subscriptions, inventory>>

(* DELETE /projects/:id *)
DeleteProjectExists(r) ==
  /\ Waiting(r, "dp_exists")
  /\ \/ Fail(r)
     \/ /\ IF {p \in projects : p.id = SqlInt(reqs[r].id)} = {}
             THEN Set(r, Respond(reqs[r], "handler", 404))
             ELSE Set(r, Await(reqs[r], "dp_delete"))
        /\ UNCHANGED <<store, nreq>>

\* Whether the schema cascades the delete to project_tasks is not in the
\* repository: both are allowed
DeleteProjectDelete(r) ==
  /\ Waiting(r, "dp_delete")
  /\ \/ Fail(r)
     \/ /\ projects' = {p \in projects : p.id # SqlInt(reqs[r].id)}
        /\ \E cascade \in BOOLEAN :
             project_tasks' = IF cascade
                                THEN {t \in project_tasks : t.project_id # SqlInt(reqs[r].id)}
                                ELSE project_tasks
        /\ Set(r, Respond(Wrote(reqs[r]), "handler", 200))
        /\ UNCHANGED <<users, clients, invoices, nextProjectId, nreq, subscriptions, inventory>>

(* POST /projects/:id/tasks *)
PostTaskProject(r) ==
  /\ Waiting(r, "ct_project")
  /\ \/ Fail(r)
     \/ /\ IF {p \in projects : p.id = SqlInt(reqs[r].id)} = {}
             THEN Set(r, Respond(reqs[r], "handler", 404))
             ELSE Set(r, Await(reqs[r], "ct_user"))
        /\ UNCHANGED <<store, nreq>>

PostTaskUser(r) ==
  /\ Waiting(r, "ct_user")
  /\ \/ Fail(r)
     \/ /\ IF {u \in users : u.id = reqs[r].body.assigned_to} = {}
             THEN Set(r, Respond(reqs[r], "handler", 400))
             ELSE Set(r, Await(reqs[r], "ct_insert"))
        /\ UNCHANGED <<store, nreq>>

PostTaskInsert(r) ==
  /\ Waiting(r, "ct_insert")
  /\ \/ Fail(r)
     \/ /\ project_tasks' = project_tasks \cup
             { [project_id |-> SqlInt(reqs[r].id), assigned_to |-> reqs[r].body.assigned_to] }
        /\ Set(r, Respond(Wrote(reqs[r]), "handler", 201))
        /\ UNCHANGED <<users, projects, clients, invoices, nextProjectId, nreq, subscriptions, inventory>>

(* PUT /users/:id *)
PutUserExists(r) ==
  /\ Waiting(r, "uu_exists")
  /\ \/ Fail(r)
     \/ /\ IF {u \in users : u.id = SqlInt(reqs[r].id)} = {}
             THEN Set(r, Respond(reqs[r], "handler", 404))
           ELSE IF UserUpdateFields(reqs[r].body, reqs[r].user.role) = {}
             THEN Set(r, Respond(reqs[r], "handler", 400))
           ELSE Set(r, Await(reqs[r], "uu_update"))
        /\ UNCHANGED <<store, nreq>>

PutUserUpdate(r) ==
  /\ Waiting(r, "uu_update")
  /\ \/ Fail(r)
     \/ /\ LET q      == reqs[r]
               fields == UserUpdateFields(q.body, q.user.role)
           IN users' = { IF u.id = SqlInt(q.id) THEN UpdateUser(u, fields, q.body) ELSE u :
                           u \in users }
        /\ Set(r, Respond(Wrote(reqs[r]), "handler", 200))
        /\ UNCHANGED <<projects, project_tasks, clients, invoices, nextProjectId, nreq, subscriptions, inventory>>

(* PUT /employees/:id *)
PutEmployeeExists(r) ==
  /\ Waiting(r, "ue_exists")
  /\ \/ Fail(r)
     \/ /\ IF {u \in users : u.id = SqlInt(reqs[r].id) /\ u.role # "client"} = {}
             THEN Set(r, Respond(reqs[r], "handler", 404))
           ELSE IF EmployeeUpdateFields(reqs[r].body) = {}
             THEN Set(r, Respond(reqs[r], "handler", 400))
           ELSE Set(r, Await(reqs[r], "ue_update"))
        /\ UNCHANGED <<store, nreq>>

PutEmployeeUpdate(r) ==
  /\ Waiting(r, "ue_update")
  /\ \/ Fail(r)
     \/ /\ LET q == reqs[r] IN
           users' = { IF u.id = SqlInt(q.id)
                        THEN UpdateUser(u, EmployeeUpdateFields(q.body), q.body) ELSE u :
                      u \in users }
        /\ Set(r, Respond(Wrote(reqs[r]), "handler", 200))
        /\ UNCHANGED <<projects, project_tasks, clients, invoices, nextProjectId, nreq,
                       subscriptions, inventory>>

(* DELETE /users/:id *)
DeleteUserExists(r) ==
  /\ Waiting(r, "du_exists")
  /\ \/ Fail(r)
     \/ /\ IF {u \in users : u.id = SqlInt(reqs[r].id)} = {}
             THEN Set(r, Respond(reqs[r], "handler", 404))
             ELSE Set(r, Await(reqs[r], "du_delete"))
        /\ UNCHANGED <<store, nreq>>

DeleteUserDelete(r) ==
  /\ Waiting(r, "du_delete")
  /\ \/ Fail(r)
     \/ /\ users' = {u \in users : u.id # SqlInt(reqs[r].id)}
        /\ Set(r, Respond(Wrote(reqs[r]), "handler", 200))
        /\ UNCHANGED <<projects, project_tasks, clients, invoices, nextProjectId, nreq, subscriptions, inventory>>

(* POST /employees/:id/deactivate *)
DeactivateSelect(r) ==
  /\ Waiting(r, "de_select")
  /\ \/ Fail(r)
     \/ /\ LET rows == {u \in users : u.id = SqlInt(reqs[r].id) /\ u.role # "client"} IN
           IF rows = {} THEN Set(r, Respond(reqs[r], "handler", 404))
           ELSE IF \E u \in rows : ~u.is_active THEN Set(r, Respond(reqs[r], "handler", 400))
           ELSE Set(r, Await(reqs[r], "de_update"))
        /\ UNCHANGED <<store, nreq>>

DeactivateUpdate(r) ==
  /\ Waiting(r, "de_update")
  /\ \/ Fail(r)
     \/ /\ users' = { IF u.id = SqlInt(reqs[r].id) THEN [u EXCEPT !.is_active = FALSE] ELSE u :
                        u \in users }
        /\ Set(r, Respond(Wrote(reqs[r]), "handler", 200))
        /\ UNCHANGED <<projects, project_tasks, clients, invoices, nextProjectId, nreq, subscriptions, inventory>>

(* POST /employees/:id/activate *)
ActivateSelect(r) ==
  /\ Waiting(r, "ac_select")
  /\ \/ Fail(r)
     \/ /\ LET rows == {u \in users : u.id = SqlInt(reqs[r].id) /\ u.role # "client"} IN
           IF rows = {} THEN Set(r, Respond(reqs[r], "handler", 404))
           ELSE IF \E u \in rows : u.is_active THEN Set(r, Respond(reqs[r], "handler", 400))
           ELSE Set(r, Await(reqs[r], "ac_update"))
        /\ UNCHANGED <<store, nreq>>

ActivateUpdate(r) ==
  /\ Waiting(r, "ac_update")
  /\ \/ Fail(r)
     \/ /\ users' = { IF u.id = SqlInt(reqs[r].id) THEN [u EXCEPT !.is_active = TRUE] ELSE u :
                        u \in users }
        /\ Set(r, Respond(Wrote(reqs[r]), "handler", 200))
        /\ UNCHANGED <<projects, project_tasks, clients, invoices, nextProjectId, nreq, subscriptions, inventory>>

----------------------------------------------------------------------------
(* Inventory, invoices and clients.  Every awaited query is one step; the   *)
(* lookup inside a generate function is swallowed by that function's catch, *)
(* every other query throws into the handler's catch.                       *)

\* The item of the body the loop is at: items.length - left + 1
Item(q) == q.body.items - q.left + 1

\* After the parent row: the first item, or the answer when items is empty
Loop(q, pc, s) ==
  IF q.body.items = 0 THEN Respond(q, "handler", s)
  ELSE [Await(q, pc) EXCEPT !.left = q.body.items]

\* After an item: the next item, or the answer after the last one
Iterate(q, pc, s) ==
  IF q.left = 1 THEN Respond([q EXCEPT !.left = 0], "handler", s)
  ELSE [Await(q, pc) EXCEPT !.left = @ - 1]

(* POST /equipment/products *)
PostProductCode(r) ==
  /\ Waiting(r, "pr_alloc")
  /\ \/ \E now \in Timestamps :
          Set(r, Await([reqs[r] EXCEPT !.fallback = TRUE,
                                       !.code = FallbackProductCode(now)], "pr_insert"))
     \/ Set(r, Await([reqs[r] EXCEPT !.code = GenerateProductCode(reqs[r].body.category_id)],
                     "pr_insert"))
  /\ UNCHANGED <<store, nreq>>

PostProductInsert(r) ==
  /\ Waiting(r, "pr_insert")
  /\ \/ Fail(r)
     \/ /\ products' = products \cup
             { [id |-> nextId.products, product_code |-> reqs[r].code, current_stock |-> 0] }
        /\ nextId' = [nextId EXCEPT !.products = @ + 1]
        /\ Set(r, Respond([Wrote(reqs[r]) EXCEPT !.insertId = nextId.products], "handler", 201))
        /\ UNCHANGED <<users, projects, project_tasks, clients, invoices, nextProjectId, nreq, subscriptions,
                       purchase_lots, purchase_lot_items, sales, sale_items, stock_movements,
                       invoice_items>>

(* POST /equipment/purchase-lots *)
PostPurchaseLotNumber(r) ==
  /\ Waiting(r, "pl_alloc")
  /\ \/ \E now \in Timestamps :
          Set(r, Await([reqs[r] EXCEPT !.fallback = TRUE,
                                       !.code = FallbackLotNumber(now)], "pl_insert"))
     \/ Set(r, Await([reqs[r] EXCEPT !.code = GenerateLotNumber], "pl_insert"))
  /\ UNCHANGED <<store, nreq>>

PostPurchaseLotInsert(r) ==
  /\ Waiting(r, "pl_insert")
  /\ \/ Fail(r)
     \/ /\ purchase_lots' = purchase_lots \cup
             { [id |-> nextId.purchase_lots, lot_number |-> reqs[r].code] }
        /\ nextId' = [nextId EXCEPT !.purchase_lots = @ + 1]
        /\ Set(r, Loop([Wrote(reqs[r]) EXCEPT !.insertId = nextId.purchase_lots],
                       "pl_item", 201))
        /\ UNCHANGED <<users, projects, project_tasks, clients, invoices, nextProjectId, nreq, subscriptions,
                       products, purchase_lot_items, sales, sale_items, stock_movements,
                       invoice_items>>

PostPurchaseLotItem(r) ==
  /\ Waiting(r, "pl_item")
  /\ \/ Fail(r)
     \/ /\ purchase_lot_items' = purchase_lot_items \cup
             { [lot_id |-> reqs[r].insertId, item |-> Item(reqs[r])] }
        /\ Set(r, Iterate(reqs[r], "pl_item", 201))
        /\ UNCHANGED <<users, projects, project_tasks, clients, invoices, nextProjectId, nreq, subscriptions,
                       products, purchase_lots, sales, sale_items, stock_movements,
                       invoice_items, nextId>>

(* POST /equipment/sales: every item sells one unit of product 1 *)
PostSaleNumber(r) ==
  /\ Waiting(r, "sa_alloc")
  /\ \/ \E now \in Timestamps :
          Set(r, Await([reqs[r] EXCEPT !.fallback = TRUE,
                                       !.code = FallbackSaleNumber(now)], "sa_insert"))
     \/ Set(r, Await([reqs[r] EXCEPT !.code = GenerateSaleNumber], "sa_insert"))
  /\ UNCHANGED <<store, nreq>>

PostSaleInsert(r) ==
  /\ Waiting(r, "sa_insert")
  /\ \/ Fail(r)
     \/ /\ sales' = sales \cup { [id |-> nextId.sales, sale_number |-> reqs[r].code] }
        /\ nextId' = [nextId EXCEPT !.sales = @ + 1]
        /\ Set(r, Loop([Wrote(reqs[r]) EXCEPT !.insertId = nextId.sales], "sa_item", 201))
        /\ UNCHANGED <<users, projects, project_tasks, clients, invoices, nextProjectId, nreq, subscriptions,
                       products, purchase_lots, purchase_lot_items, sale_items,
                       stock_movements, invoice_items>>

PostSaleItem(r) ==
  /\ Waiting(r, "sa_item")
  /\ \/ Fail(r)
     \/ /\ sale_items' = sale_items \cup
             { [sale_id |-> reqs[r].insertId, item |-> Item(reqs[r])] }
        /\ Set(r, Await(reqs[r], "sa_stock"))
        /\ UNCHANGED <<users, projects, project_tasks, clients, invoices, nextProjectId, nreq, subscriptions,
                       products, purchase_lots, purchase_lot_items, sales, stock_movements,
                       invoice_items, nextId>>

PostSaleStock(r) ==
  /\ Waiting(r, "sa_stock")
  /\ \/ Fail(r)
     \/ /\ products' = { IF p.id = 1 THEN [p EXCEPT !.current_stock = @ - 1] ELSE p :
                          p \in products }
        /\ Set(r, Await(reqs[r], "sa_move"))
        /\ UNCHANGED <<users, projects, project_tasks, clients, invoices, nextProjectId, nreq, subscriptions,
                       purchase_lots, purchase_lot_items, sales, sale_items, stock_movements,
                       invoice_items, nextId>>

PostSaleMovement(r) ==
  /\ Waiting(r, "sa_move")
  /\ \/ Fail(r)
     \/ /\ stock_movements' = stock_movements \cup
             { [sale_id |-> reqs[r].insertId, item |-> Item(reqs[r])] }
        /\ Set(r, Iterate(reqs[r], "sa_item", 201))
        /\ UNCHANGED <<users, projects, project_tasks, clients, invoices, nextProjectId, nreq, subscriptions,
                       products, purchase_lots, purchase_lot_items, sales, sale_items,
                       invoice_items, nextId>>

(* GET /invoices/generate-number: no fallback, the catch answers 500 *)
GetInvoiceNumberSelect(r) ==
  /\ Waiting(r, "in_alloc")
  /\ \/ Fail(r)
     \/ /\ Set(r, Respond([reqs[r] EXCEPT !.code = GenerateInvoiceNumber], "handler", 200))
        /\ UNCHANGED <<store, nreq>>

(* POST /invoices *)
PostInvoiceClient(r) ==
  /\ Waiting(r, "iv_client")
  /\ \/ Fail(r)
     \/ /\ IF {c \in clients : c.id = reqs[r].body.client_id} = {}
             THEN Set(r, Respond(reqs[r], "handler", 400))
             ELSE Set(r, Await(reqs[r], "iv_number"))
        /\ UNCHANGED <<store, nreq>>

PostInvoiceNumber(r) ==
  /\ Waiting(r, "iv_number")
  /\ \/ Fail(r)
     \/ /\ IF {i \in invoices : i.invoice_number = reqs[r].body.invoice_number} # {}
             THEN Set(r, Respond(reqs[r], "handler", 400))
             ELSE Set(r, Await(reqs[r], "iv_insert"))
        /\ UNCHANGED <<store, nreq>>

PostInvoiceInsert(r) ==
  /\ Waiting(r, "iv_insert")
  /\ \/ Fail(r)
     \/ /\ invoices' = invoices \cup
             { [id |-> nextId.invoices, created_by |-> reqs[r].user.id,
                invoice_number |-> reqs[r].body.invoice_number,
                client_id |-> reqs[r].body.client_id, status |-> "draft"] }
        /\ nextId' = [nextId EXCEPT !.invoices = @ + 1]
        /\ Set(r, Loop([Wrote(reqs[r]) EXCEPT !.insertId = nextId.invoices,
                                             !.code = reqs[r].body.invoice_number],
                       "iv_item", 201))
        /\ UNCHANGED <<users, projects, project_tasks, clients, nextProjectId, nreq, subscriptions,
                       products, purchase_lots, purchase_lot_items, sales, sale_items,
                       stock_movements, invoice_items>>

PostInvoiceItem(r) ==
  /\ Waiting(r, "iv_item")
  /\ \/ Fail(r)
     \/ /\ invoice_items' = invoice_items \cup
             { [invoice_id |-> reqs[r].insertId, item |-> Item(reqs[r])] }
        /\ Set(r, Iterate(reqs[r], "iv_item", 201))
        /\ UNCHANGED <<users, projects, project_tasks, clients, invoices, nextProjectId, nreq, subscriptions,
                       products, purchase_lots, purchase_lot_items, sales, sale_items,
                       stock_movements, nextId>>

(* PUT /invoices/:id with items and no other field *)
PutInvoiceExists(r) ==
  /\ Waiting(r, "ui_exists")
  /\ \/ Fail(r)
     \/ /\ IF {i \in invoices : i.id = SqlInt(reqs[r].id)} = {}
             THEN Set(r, Respond(reqs[r], "handler", 404))
             ELSE Set(r, Await(reqs[r], "ui_delete"))
        /\ UNCHANGED <<store, nreq>>

PutInvoiceDelete(r) ==
  /\ Waiting(r, "ui_delete")
  /\ \/ Fail(r)
     \/ /\ invoice_items' = {i \in invoice_items : i.invoice_id # SqlInt(reqs[r].id)}
        /\ Set(r, Loop([Wrote(reqs[r]) EXCEPT !.insertId = SqlInt(reqs[r].id)],
                       "ui_item", 200))
        /\ UNCHANGED <<users, projects, project_tasks, clients, invoices, nextProjectId, nreq, subscriptions,
                       products, purchase_lots, purchase_lot_items, sales, sale_items,
                       stock_movements, nextId>>

PutInvoiceItem(r) ==
  /\ Waiting(r, "ui_item")
  /\ \/ Fail(r)
     \/ /\ invoice_items' = invoice_items \cup
             { [invoice_id |-> reqs[r].insertId, item |-> Item(reqs[r])] }
        /\ Set(r, Iterate(reqs[r], "ui_item", 200))
        /\ UNCHANGED <<users, projects, project_tasks, clients, invoices, nextProjectId, nreq, subscriptions,
                       products, purchase_lots, purchase_lot_items, sales, sale_items,
                       stock_movements, nextId>>

(* POST /clients *)
\* Variant: the email is not looked up, the row is inserted in any case
PostClientEmailUnchecked(r) ==
  /\ Waiting(r, "cc_email")
  /\ \/ Fail(r)
     \/ Set(r, Await(reqs[r], "cc_insert")) /\ UNCHANGED <<store, nreq>>

PostClientEmail(r) ==
  /\ Waiting(r, "cc_email")
  /\ \/ Fail(r)
     \/ /\ IF {c \in clients : c.email = NormalizeEmail(reqs[r].body.email)} # {}
             THEN Set(r, Respond(reqs[r], "handler", 400))
             ELSE Set(r, Await(reqs[r], "cc_insert"))
        /\ UNCHANGED <<store, nreq>>

PostClientInsert(r) ==
  /\ Waiting(r, "cc_insert")
  /\ \/ Fail(r)
     \/ /\ clients' = clients \cup
             { [id |-> nextId.clients, email |-> NormalizeEmail(reqs[r].body.email)] }
        /\ nextId' = [nextId EXCEPT !.clients = @ + 1]
        /\ Set(r, Respond([Wrote(reqs[r]) EXCEPT !.insertId = nextId.clients], "handler", 201))
        /\ UNCHANGED <<users, projects, project_tasks, invoices, nextProjectId, nreq, subscriptions,
                       products, purchase_lots, purchase_lot_items, sales, sale_items,
                       stock_movements, invoice_items>>

(* DELETE /clients/:id: the three counts are read one after the other and   *)
(* added up in refs                                                         *)
DeleteClientExists(r) ==
  /\ Waiting(r, "dc_exists")
  /\ \/ Fail(r)
     \/ /\ IF {c \in clients : c.id = SqlInt(reqs[r].id)} = {}
             THEN Set(r, Respond(reqs[r], "handler", 404))
             ELSE Set(r, Await(reqs[r], "dc_projects"))
        /\ UNCHANGED <<store, nreq>>

\* SELECT COUNT(*) FROM table WHERE client_id = ?
CountByClient(rows, id) == Cardinality({x \in rows : x.client_id = SqlInt(id)})

DeleteClientProjects(r) ==
  /\ Waiting(r, "dc_projects")
  /\ \/ Fail(r)
     \/ /\ Set(r, [Await(reqs[r], "dc_subscriptions")
                     EXCEPT !.refs = CountByClient(projects, reqs[r].id)])
        /\ UNCHANGED <<store, nreq>>

DeleteClientSubscriptions(r) ==
  /\ Waiting(r, "dc_subscriptions")
  /\ \/ Fail(r)
     \/ /\ Set(r, [Await(reqs[r], "dc_invoices")
                     EXCEPT !.refs = @ + CountByClient(subscriptions, reqs[r].id)])
        /\ UNCHANGED <<store, nreq>>

\* Variant: the counts are not looked at
ReferencedNever(count) == FALSE

\* projects[0].count > 0 || subscriptions[0].count > 0 || invoices[0].count > 0
Referenced(count) == count > 0

DeleteClientInvoices(r) ==
  /\ Waiting(r, "dc_invoices")
  /\ \/ Fail(r)
     \/ /\ LET q == [reqs[r] EXCEPT !.refs = @ + CountByClient(invoices, reqs[r].id)]
           IN  IF Referenced(q.refs) THEN Set(r, Respond(q, "handler", 400))
               ELSE Set(r, Await(q, "dc_delete"))
        /\ UNCHANGED <<store, nreq>>

DeleteClientDelete(r) ==
  /\ Waiting(r, "dc_delete")
  /\ \/ Fail(r)
     \/ /\ clients' = {c \in clients : c.id # SqlInt(reqs[r].id)}
        /\ Set(r, Respond(Wrote(reqs[r]), "handler", 200))
        /\ UNCHANGED <<users, projects, project_tasks, invoices, nextProjectId, nreq,
                       subscriptions, inventory>>

----------------------------------------------------------------------------
(* Specifications *)

\* Account management: the routes that change users rows, and two routes
\* behind authorize and checkResourceAccess
AccountRoutes == UserRoutes \cup {PostProject, GetProject}

Next ==
  \E r \in Slots :
    \/ Request(r, AccountRoutes)
    \/ AuthenticateTokenLookup(r)
    \/ CheckResourceAccessLookup(r)
    \/ GetProjectSelect(r) \/ GetProjectTasks(r) \/ GetProjectTimeEntries(r)
    \/ PostProjectClient(r) \/ PostProjectManager(r) \/ PostProjectInsert(r)
    \/ PutUserExists(r) \/ PutUserUpdate(r)
    \/ DeleteUserExists(r) \/ DeleteUserDelete(r)
    \/ DeactivateSelect(r) \/ DeactivateUpdate(r)
    \/ ActivateSelect(r) \/ ActivateUpdate(r)

Spec == Init /\ [][Next]_vars

\* Project access: the routes behind checkResourceAccess('project') and the
\* routes that change the rows it reads
AccessRoutes == ProjectRoutes

NextAccess ==
  \E r \in Slots :
    \/ Request(r, AccessRoutes)
    \/ AuthenticateTokenLookup(r)
    \/ CheckResourceAccessLookup(r)
    \/ GetProjectSelect(r) \/ GetProjectTasks(r) \/ GetProjectTimeEntries(r)
    \/ PutProjectExists(r) \/ PutProjectUpdate(r)
    \/ PostProjectClient(r) \/ PostProjectManager(r) \/ PostProjectInsert(r)
    \/ DeleteProjectExists(r) \/ DeleteProjectDelete(r)
    \/ PostTaskProject(r) \/ PostTaskUser(r) \/ PostTaskInsert(r)

SpecAccess == Init /\ [][NextAccess]_vars

\* Resource kinds: one route behind checkResourceAccess for each kind
KindRoutes == GuardedRoutes \cup {GetProject}

NextKinds ==
  \E r \in Slots :
    \/ Request(r, KindRoutes)
    \/ AuthenticateTokenLookup(r)
    \/ CheckResourceAccessLookup(r)
    \/ GetProjectSelect(r) \/ GetProjectTasks(r) \/ GetProjectTimeEntries(r)

SpecKinds == Init /\ [][NextKinds]_vars

\* Purchase lots, strictly sequentially, from no lot of the year and from the
\* lots the first 9999 such requests leave
LotsIssued == 10000 - 1

InitLots == \E lots \in {0, LotsIssued} : InitAfter(lots)

NextLots ==
  \E r \in Slots :
    \/ CallInTurn(r, {PostPurchaseLot}, {ManagerHeader}, MaxLots)
    \/ AuthenticateTokenLookup(r)
    \/ PostPurchaseLotNumber(r) \/ PostPurchaseLotInsert(r) \/ PostPurchaseLotItem(r)

SpecLots == InitLots /\ [][NextLots]_vars

\* Product codes and invoice numbers: the two allocators whose table also
\* receives codes the allocator did not format
CodeRoutes == {PostProduct, GetInvoiceNumber, PostInvoice}

NextCodes ==
  \E r \in Slots :
    \/ Call(r, CodeRoutes, {ManagerHeader}, MaxRequests)
    \/ AuthenticateTokenLookup(r)
    \/ PostProductCode(r) \/ PostProductInsert(r)
    \/ GetInvoiceNumberSelect(r)
    \/ PostInvoiceClient(r) \/ PostInvoiceNumber(r) \/ PostInvoiceInsert(r)
    \/ PostInvoiceItem(r)

SpecCodes == Init /\ [][NextCodes]_vars

\* Writes of several statements: a parent row and one or more rows or updates
\* for each item
WriteRoutes == {PostPurchaseLot, PostSale, PostInvoice, PutInvoice}

NextWrites ==
  \E r \in Slots :
    \/ Call(r, WriteRoutes, {ManagerHeader}, MaxRequests)
    \/ AuthenticateTokenLookup(r)
    \/ PostPurchaseLotNumber(r) \/ PostPurchaseLotInsert(r) \/ PostPurchaseLotItem(r)
    \/ PostSaleNumber(r) \/ PostSaleInsert(r)
    \/ PostSaleItem(r) \/ PostSaleStock(r) \/ PostSaleMovement(r)
    \/ PostInvoiceClient(r) \/ PostInvoiceNumber(r) \/ PostInvoiceInsert(r)
    \/ PostInvoiceItem(r)
    \/ PutInvoiceExists(r) \/ PutInvoiceDelete(r) \/ PutInvoiceItem(r)

SpecWrites == Init /\ [][NextWrites]_vars

\* Client creation, strictly sequentially
NextClients ==
  \E r \in Slots :
    \/ CallInTurn(r, {PostClient}, {ManagerHeader}, MaxRequests)
    \/ AuthenticateTokenLookup(r)
    \/ PostClientEmail(r) \/ PostClientInsert(r)

SpecClients == Init /\ [][NextClients]_vars

\* Clients and the rows that reference them, strictly sequentially
NextRefs ==
  \E r \in Slots :
    \/ CallInTurn(r, {DeleteClient, PostClient, PostProject}, {ManagerHeader}, MaxRequests)
    \/ AuthenticateTokenLookup(r)
    \/ DeleteClientExists(r) \/ DeleteClientProjects(r) \/ DeleteClientSubscriptions(r)
    \/ DeleteClientInvoices(r) \/ DeleteClientDelete(r)
    \/ PostClientEmail(r) \/ PostClientInsert(r)
    \/ PostProjectClient(r) \/ PostProjectManager(r) \/ PostProjectInsert(r)

SpecRefs == Init /\ [][NextRefs]_vars

\* The list of projects and the detail of one project, read by an identity of
\* each role; no request changes a row
ListCallers == {AdminHeader, ManagerHeader, EmployeeHeader, ClientHeader}

NextLists ==
  \E r \in Slots :
    \/ Call(r, {GetProjects, GetProject}, ListCallers, MaxRequests)
    \/ AuthenticateTokenLookup(r)
    \/ CheckResourceAccessLookup(r)
    \/ GetProjectsSelect(r)
    \/ GetProjectSelect(r) \/ GetProjectTasks(r) \/ GetProjectTimeEntries(r)

SpecLists == Init /\ [][NextLists]_vars

\* Status changes of subscriptions and invoices by the manager, strictly
\* sequentially
NextStatus ==
  \E r \in Slots :
    \/ CallInTurn(r, SubscriptionStatusRoutes \cup InvoiceStatusRoutes, {ManagerHeader},
                  MaxRequests)
    \/ AuthenticateTokenLookup(r)
    \/ StatusSelect(r, Suspend) \/ StatusUpdate(r, Suspend)
    \/ StatusSelect(r, Reactivate) \/ StatusUpdate(r, Reactivate)
    \/ StatusSelect(r, Cancel) \/ StatusUpdate(r, Cancel)
    \/ StatusSelect(r, SendInvoice) \/ StatusUpdate(r, SendInvoice)
    \/ StatusSelect(r, MarkPaid) \/ StatusUpdate(r, MarkPaid)

SpecStatus == Init /\ [][NextStatus]_vars

\* The employee alone: reads and updates of a project and the creation of
\* tasks, with no request of any other identity
NextOwn ==
  \E r \in Slots :
    \/ Call(r, {GetProject, PutProject, PostTask}, {EmployeeHeader}, MaxRequests)
    \/ AuthenticateTokenLookup(r)
    \/ CheckResourceAccessLookup(r)
    \/ GetProjectSelect(r) \/ GetProjectTasks(r) \/ GetProjectTimeEntries(r)
    \/ PutProjectExists(r) \/ PutProjectUpdate(r)
    \/ PostTaskProject(r) \/ PostTaskUser(r) \/ PostTaskInsert(r)

SpecOwn == Init /\ [][NextOwn]_vars

\* Number of profile updates in a behaviour of SpecUsers
MaxProfiles == 2

\* Profile updates of users rows by an administrator and by an employee,
\* strictly sequentially
NextUsers ==
  \E r \in Slots :
    \/ CallProfile(r, {PutUser, PutEmployee}, {AdminHeader, EmployeeHeader}, MaxProfiles)
    \/ AuthenticateTokenLookup(r)
    \/ PutUserExists(r) \/ PutUserUpdate(r)
    \/ PutEmployeeExists(r) \/ PutEmployeeUpdate(r)

SpecUsers == Init /\ [][NextUsers]_vars

----------------------------------------------------------------------------
(* Properties of the token verifier and the role authorizer (Spec)         *)

Started(q)   == q.pc # "idle"
Completed(q) == q.pc = "done"

\* The header carries no bearer credential: it is absent, or nothing but
\* another space or the end of the header follows its first space
CarriesNoCredential(h) ==
  \/ h = NoHeader
  \/ \A i \in 1..Len(h) : h[i] # " "
  \/ \E i \in 1..Len(h) :
       /\ h[i] = " "
       /\ \A j \in 1..(i-1) : h[j] # " "
       /\ (i = Len(h) \/ h[i+1] = " ")

\* C1: a request without a bearer credential is answered 401 by
\* authenticateToken, which never calls next(): no identity is attached, no
\* handler runs, and the request issues no persistence query and no write.
C1_NoCredentialIs401 ==
  \A r \in Slots :
    LET q == reqs[r] IN
    Started(q) /\ CarriesNoCredential(q.header) =>
      /\ Completed(q) /\ q.status = 401 /\ q.by = "authenticateToken"
      /\ q.user = NoUser /\ q.access = "none" /\ ~q.handlerRan
      /\ q.queries = 0 /\ ~q.wrote

C1_Witness ==
  \E r \in Slots :
    /\ Completed(reqs[r]) /\ reqs[r].route = PutUser
    /\ reqs[r].header = <<"Bearer", " ", " ", "jwt1">>
    /\ reqs[r].status = 401

\* C2: when the token verifies and the users lookup finds no row or an
\* inactive row, authenticateToken answers 401, attaches no identity and does
\* not call next(), whatever ran before the lookup.
C2_StaleAccountIs401 ==
  \A r \in Slots :
    LET q == reqs[r] IN
    q.lookup \in {"empty", "inactive"} =>
      /\ Completed(q) /\ q.status = 401 /\ q.by = "authenticateToken"
      /\ q.user = NoUser /\ q.access = "none" /\ ~q.handlerRan /\ ~q.wrote

C2_Witness ==
  \E r, s \in Slots :
    /\ Completed(reqs[r]) /\ reqs[r].lookup = "inactive" /\ reqs[r].status = 401
    /\ Completed(reqs[s]) /\ reqs[s].route = Deactivate /\ reqs[s].status = 200

\* C3: every authentication failure of authenticateToken is answered 401;
\* authenticateToken never answers 403.
C3_AuthenticationFailureIs401 ==
  \A r \in Slots :
    Completed(reqs[r]) /\ reqs[r].by = "authenticateToken" => reqs[r].status = 401

\* The role authorizer on every route that mounts it, for a request that
\* passed authenticateToken
AuthorizeDecides ==
  \A r \in Slots :
    LET q == reqs[r] IN
    q.lookup = "active" /\ AuthorizeRoles(q.route) # {} =>
      IF q.user.role \in AuthorizeRoles(q.route)
        THEN q.access = "granted" /\ q.handlerRan /\ q.by # "authorize"
        ELSE /\ Completed(q) /\ q.status = 403 /\ q.by = "authorize"
             /\ q.access = "denied" /\ ~q.handlerRan /\ ~q.wrote /\ q.queries = 1

\* A POST /projects request of an administrator whose name passed validation
\* completes in this step
AdminCreateCompletes(r) ==
  /\ reqs[r].route = PostProject
  /\ reqs[r].pc \in {"cp_client", "cp_manager", "cp_insert"}
  /\ reqs[r].user.role = "admin"
  /\ Valid(PostProject, reqs[r].body)
  /\ reqs'[r].pc = "done"

Created(r) ==
  /\ reqs'[r].status = 201
  /\ reqs'[r].insertId # NULL
  /\ \E p \in projects' : p.id = reqs'[r].insertId
  /\ \A p \in projects : p.id # reqs'[r].insertId

\* C4 as stated: authorize denies every role outside the declared list with
\* 403 before the handler and lets every listed role through; POST /projects
\* by an administrator with a valid name answers 201 with a projectId (unless
\* the persistence layer fails).
C4_AdminCreateAlways201 ==
  /\ []AuthorizeDecides
  /\ [][\A r \in Slots :
          AdminCreateCompletes(r) => reqs'[r].status = 500 \/ Created(r)]_vars

\* C4 amended: as above, but the administrator's POST /projects answers 201
\* only when client_id and manager_id, where given, pass their checks: it
\* answers 400 and inserts nothing when client_id names no client row or
\* manager_id names no user whose role is admin or manager.
C4_AuthorizeThenCreate ==
  /\ []AuthorizeDecides
  /\ [][\A r \in Slots :
          AdminCreateCompletes(r) =>
            \/ reqs'[r].status = 500 /\ ~reqs'[r].wrote
            \/ /\ reqs[r].pc = "cp_client"
               /\ \A c \in clients : c.id # reqs[r].body.client_id
               /\ reqs'[r].status = 400 /\ ~reqs'[r].wrote /\ projects' = projects
            \/ /\ reqs[r].pc = "cp_manager"
               /\ \A u \in users : ~(u.id = reqs[r].body.manager_id
                                       /\ u.role \in {"admin", "manager"})
               /\ reqs'[r].status = 400 /\ ~reqs'[r].wrote /\ projects' = projects
            \/ reqs[r].pc = "cp_insert" /\ Created(r)]_vars

C4_Witness ==
  /\ \E r \in Slots :
       /\ Completed(reqs[r]) /\ reqs[r].route = PostProject
       /\ reqs[r].user.role = "admin" /\ reqs[r].status = 201
       /\ reqs[r].insertId \in {p.id : p \in projects}
  /\ \E r \in Slots :
       /\ Completed(reqs[r]) /\ reqs[r].route = PostProject
       /\ reqs[r].user.role = "employee" /\ reqs[r].status = 403

\* C10: the identity attached to a request carries the role of the users row
\* at the time of the verifier's lookup, whatever the token says, and
\* authorize and checkResourceAccess decide on that role.
C10_RoleFromLiveRow ==
  [][\A r \in Slots :
       reqs[r].pc = "auth" /\ reqs'[r].lookup = "active" =>
         \E u \in users :
           /\ u.id = JwtVerify(BearerToken(reqs[r].header)).userId
           /\ reqs'[r].user.id = u.id
           /\ reqs'[r].user.role = u.role
           /\ AuthorizeRoles(reqs[r].route) # {} =>
                (reqs'[r].access = "granted" <=> u.role \in AuthorizeRoles(reqs[r].route))
           /\ ResourceType(reqs[r].route) # "none" =>
                IF u.role = "admin"
                  THEN reqs'[r].access = "granted" /\ reqs'[r].racQueries = 0
                  ELSE reqs'[r].pc = "rac"]_vars

\* The same token, issued to an employee, is authorized as the administrator
\* the account has become
C10_Witness ==
  \E r \in Slots :
    /\ Completed(reqs[r]) /\ reqs[r].route = PostProject /\ reqs[r].status = 201
    /\ JwtVerify(BearerToken(reqs[r].header)).role = "employee"
    /\ reqs[r].user.role = "admin"

----------------------------------------------------------------------------
(* Properties of the resource access checker (SpecAccess for the project   *)
(* kind under changing rows, SpecKinds for every kind)                     *)

\* The step in which the lookup of checkResourceAccess(kind) answers request r
\* without throwing
RacAnswers(r, kind) ==
  /\ reqs[r].pc = "rac" /\ reqs'[r].pc # "rac"
  /\ ResourceType(reqs[r].route) = kind
  /\ ~(reqs'[r].by = "checkResourceAccess" /\ reqs'[r].status = 500)

\* ... by calling next(): the handler runs
RacGrants(r) ==
  /\ reqs'[r].access = "granted" /\ reqs'[r].handlerRan
  /\ reqs'[r].by # "checkResourceAccess"

\* ... by answering 403: the handler does not run
RacDenies(r) ==
  /\ reqs'[r].pc = "done" /\ reqs'[r].status = 403
  /\ reqs'[r].by = "checkResourceAccess" /\ reqs'[r].access = "denied"
  /\ ~reqs'[r].handlerRan /\ ~reqs'[r].wrote

\* The relations of user u to the resource named by the path parameter id
Manages(u, id) ==
  \E p \in projects : p.id = ParseInt(id) /\ p.manager_id = u

AssignedUnder(u, id) ==
  /\ \E p \in projects : p.id = ParseInt(id)
  /\ \E t \in project_tasks : t.project_id = ParseInt(id) /\ t.assigned_to = u

CreatedInvoice(u, id) ==
  \E i \in invoices : i.id = ParseInt(id) /\ i.created_by = u

ClientExists(id) ==
  \E c \in clients : c.id = ParseInt(id)

\* C5: checkResourceAccess('project') grants a non-admin identity U the project
\* P iff P exists and U manages P or is assigned a task under P; otherwise it
\* answers 403 and the handler does not run.
C5_ProjectAccessByRelation ==
  [][\A r \in Slots :
       RacAnswers(r, "project") /\ reqs[r].user.role # "admin" =>
         IF Manages(reqs[r].user.id, reqs[r].id) \/ AssignedUnder(reqs[r].user.id, reqs[r].id)
           THEN RacGrants(r)
           ELSE RacDenies(r)]_vars

\* An employee is granted the project of a task assigned to them while another
\* request is denied
C5_Witness ==
  \E r, s \in Slots :
    /\ Completed(reqs[r]) /\ ResourceType(reqs[r].route) = "project"
    /\ reqs[r].user.role = "employee" /\ reqs[r].access = "granted"
    /\ Completed(reqs[s]) /\ ResourceType(reqs[s].route) = "project"
    /\ reqs[s].status = 403 /\ reqs[s].by = "checkResourceAccess"

\* C6: for an administrator checkResourceAccess calls next() for every
\* resource kind and every id, existing or not, without any lookup of its own.
C6_AdminBypassesLookup ==
  \A r \in Slots :
    LET q == reqs[r] IN
    q.user.role = "admin" /\ ResourceType(q.route) # "none" =>
      /\ q.access = "granted" /\ q.handlerRan /\ q.racQueries = 0
      /\ q.by # "checkResourceAccess"

\* An administrator passes the invoice check for an id no invoice has
C6_Witness ==
  \E r \in Slots :
    /\ Completed(reqs[r]) /\ reqs[r].route = GuardedInvoice /\ reqs[r].id = "3"
    /\ reqs[r].user.role = "admin" /\ reqs[r].status = 200 /\ reqs[r].queries = 1

C8_InvoiceAccessByCreator ==
  [][\A r \in Slots :
       RacAnswers(r, "invoice") /\ reqs[r].user.role # "admin" =>
         IF CreatedInvoice(reqs[r].user.id, reqs[r].id)
           THEN RacGrants(r)
           ELSE RacDenies(r)]_vars

\* The manager is granted the invoice they created and denied the one the
\* administrator created
C8_Witness ==
  \E r, s \in Slots :
    /\ Completed(reqs[r]) /\ reqs[r].route = GuardedInvoice /\ reqs[r].id = "1"
    /\ reqs[r].user.role = "manager" /\ reqs[r].status = 200
    /\ Completed(reqs[s]) /\ reqs[s].route = GuardedInvoice /\ reqs[s].id = "2"
    /\ reqs[s].user.role = "manager" /\ reqs[s].status = 403

\* Request s was given a project-access decision for the identity and the
\* project that request r asks for
DecidedBefore(s, r) ==
  /\ s # r /\ Completed(reqs[s])
  /\ ResourceType(reqs[s].route) = "project"
  /\ reqs[s].user.id = reqs[r].user.id /\ reqs[s].id = reqs[r].id
  /\ reqs[s].access \in {"granted", "denied"}

\* C9: the project-access decision depends on the rows at the moment of the
\* check only: whatever was decided before for the same identity and project,
\* a new check grants iff the relation holds now.
C9_DecisionNotRemembered ==
  [][\A r, s \in Slots :
       RacAnswers(r, "project") /\ DecidedBefore(s, r) =>
         (reqs'[r].access = "granted"
            <=> \/ Manages(reqs[r].user.id, reqs[r].id)
                \/ AssignedUnder(reqs[r].user.id, reqs[r].id))]_vars

\* Two requests of one identity on one project, decided differently
C9_Witness ==
  \E r, s \in Slots :
    /\ Completed(reqs[r]) /\ DecidedBefore(s, r)
    /\ ResourceType(reqs[r].route) = "project"
    /\ reqs[r].user.role # "admin"
    /\ reqs[r].access = "granted" /\ reqs[s].access = "denied"

----------------------------------------------------------------------------
(* Properties of the generated identifiers                                  *)

\* The rows of purchase_lots whose number has the prefix of the year
YearLots == {l \in purchase_lots : Like(l.lot_number, LotPrefix)}

\* C11 (lot allocator): under strictly sequential POST /purchase-lots, from a
\* store with no lot of the year, the N persisted lots of the year carry the
\* suffixes 1, 2, ..., N exactly: no gap and no number given twice, for every N
C11_SequentialSuffixes ==
  {l.lot_number : l \in YearLots} =
    {LotPrefix \o PadStart(Decimal(k), 4) : k \in 1..Cardinality(YearLots)}

\* A code is the prefix followed by exactly `width` decimal digits
FixedWidth(code, prefix, width) ==
  /\ Like(code, prefix)
  /\ Len(code) = Len(prefix) + width
  /\ \A i \in (Len(prefix) + 1)..Len(code) : IsDigit(code[i])

\* a < b for two numbers held as decimal digits without leading zeros
NumLess(a, b) ==
  \/ Len(a) < Len(b)
  \/ /\ Len(a) = Len(b)
     /\ \E i \in 1..Len(a) : /\ DigitValue(a[i]) < DigitValue(b[i])
                              /\ \A j \in 1..(i - 1) : a[j] = b[j]

\* The number a code carries after its prefix
Suffix(code, prefix) == ParseIntOrZero(ReplacePrefix(code, prefix))

\* The request of slot r holds a code an allocator formatted in its normal mode
NormalProductCode(q) == q.route = PostProduct /\ q.code # <<>> /\ ~q.fallback
NormalInvoiceNumber(q) ==
  q.route = GetInvoiceNumber /\ q.pc = "done" /\ q.status = 200

\* C12: every identifier an allocator returns in its normal mode is its prefix
\* followed by exactly the fixed width of digits (6 for a product code, 4 for
\* an invoice number), whatever the store holds
C12_FixedWidthSuffix ==
  \A r \in Slots :
    /\ NormalProductCode(reqs[r]) =>
         \E c \in {NULL, 1} : FixedWidth(reqs[r].code, ProductPrefix(c), 6)
    /\ NormalInvoiceNumber(reqs[r]) =>
         FixedWidth(reqs[r].code, InvoicePrefix \o <<"-">>, 4)

\* C14: the number of a newly generated invoice number, or product code, is
\* strictly greater than the number of every persisted one with the same
\* prefix, caller-chosen invoice numbers and fallback codes included
C14_NewCodeGreater ==
  [][\A r \in Slots :
       /\ (Waiting(r, "in_alloc") /\ NormalInvoiceNumber(reqs'[r])) =>
            \A i \in invoices :
              Like(i.invoice_number, InvoicePrefix \o <<"-">>) =>
                NumLess(Suffix(i.invoice_number, InvoicePrefix \o <<"-">>),
                        Suffix(reqs'[r].code, InvoicePrefix \o <<"-">>))
       /\ (Waiting(r, "pr_alloc") /\ NormalProductCode(reqs'[r])) =>
            LET prefix == ProductPrefix(reqs[r].body.category_id) IN
            \A p \in products :
              Like(p.product_code, prefix) =>
                NumLess(Suffix(p.product_code, prefix), Suffix(reqs'[r].code, prefix))
    ]_vars

\* The invoice numbers of the year that are persisted
YearInvoiceNumbers ==
  {i.invoice_number : i \in {i \in invoices : Like(i.invoice_number, InvoicePrefix)}}

FirstInvoiceNumber  == InvoicePrefix \o <<"-", "0", "0", "0", "1">>
SecondInvoiceNumber == InvoicePrefix \o <<"-", "0", "0", "0", "2">>

\* C15: GET /invoices/generate-number writes nothing and its answer is fixed
\* by the store: with no invoice of the year it answers INV-<year>-0001, as
\* often as it is called; once that number is persisted it answers
\* INV-<year>-0002
C15_GenerateNumberReadOnly ==
  [][\A r \in Slots :
       (Waiting(r, "in_alloc") /\ NormalInvoiceNumber(reqs'[r])) =>
         /\ store' = store
         /\ YearInvoiceNumbers = {} => reqs'[r].code = FirstInvoiceNumber
         /\ YearInvoiceNumbers = {FirstInvoiceNumber} =>
              reqs'[r].code = SecondInvoiceNumber
    ]_vars

\* One call answered 0001 and, that number persisted, a later one answered 0002
C15_Witness ==
  \E r, s \in Slots :
    /\ NormalInvoiceNumber(reqs[r]) /\ reqs[r].code = FirstInvoiceNumber
    /\ NormalInvoiceNumber(reqs[s]) /\ reqs[s].code = SecondInvoiceNumber
    /\ FirstInvoiceNumber \in YearInvoiceNumbers

\* The lookup of the allocator the request called has thrown
AllocatorThrew(q) ==
  \/ q.fallback
  \/ q.route = GetInvoiceNumber /\ q.pc = "done" /\ q.by = "handler" /\ q.status = 500

\* The prefix the request was allocating for
AllocatedPrefix(q) ==
  IF q.route = PostProduct THEN ProductPrefix(q.body.category_id) ELSE <<"INV">>

\* C16: when the lookup of an allocator throws, the request is not failed: it
\* goes on with the prefix it was allocating for followed by the timestamp
C16_FallbackContinues ==
  \A r \in Slots :
    (AllocatorThrew(reqs[r]) /\ reqs[r].pc \in {"pr_insert", "done"}) =>
      /\ reqs[r].status # 500 \/ reqs[r].route # GetInvoiceNumber
      /\ reqs[r].pc = "pr_insert" =>
           \E now \in Timestamps : reqs[r].code = AllocatedPrefix(reqs[r]) \o now

----------------------------------------------------------------------------
(* Properties of concurrent and of failing writes (SpecWrites)              *)

\* The request has read the last number in the normal mode and has not
\* inserted its row yet
HoldsNumber(q) ==
  q.pc \in {"pl_insert", "sa_insert"} /\ ~q.fallback

\* The number the request holds is on no row yet
Unissued(q) ==
  /\ \A l \in purchase_lots : l.lot_number # q.code
  /\ \A l \in sales : l.sale_number # q.code

\* C13: two overlapping requests of the same route that have both read the
\* last number before either has inserted hold the same number; nothing keeps
\* both from inserting it (C13_Witness)
C13_ConcurrentSameNumber ==
  \A r, s \in Slots :
    ( /\ reqs[r].route = reqs[s].route
      /\ HoldsNumber(reqs[r]) /\ HoldsNumber(reqs[s])
      /\ Unissued(reqs[r]) /\ Unissued(reqs[s]) )
    => reqs[r].code = reqs[s].code

\* Two purchase lots with the same lot_number are persisted, and both requests
\* were answered 201 with that number
C13_Witness ==
  /\ \E k, l \in purchase_lots : k.id # l.id /\ k.lot_number = l.lot_number
  /\ \E r, s \in Slots :
       /\ r # s
       /\ reqs[r].route = PostPurchaseLot /\ reqs[s].route = PostPurchaseLot
       /\ reqs[r].status = 201 /\ reqs[s].status = 201
       /\ ~reqs[r].fallback /\ ~reqs[s].fallback
       /\ reqs[r].code = reqs[s].code
       /\ reqs[r].insertId # reqs[s].insertId

\* The request has written a row and a later query of its handler throws
FailsAfterWrite(r) ==
  /\ reqs[r].wrote
  /\ reqs[r].pc \notin {"idle", "done"}
  /\ reqs'[r].pc = "done"
  /\ reqs'[r].status = 500

\* C19: a query that fails after the parent row was written is answered 500
\* and nothing that was written is undone: the parent row, the items written
\* so far and the decremented stock stay, the deleted items stay deleted
C19_NoRollback ==
  [][\A r \in Slots : FailsAfterWrite(r) => store' = store]_vars

\* A sale answered 500 whose item and stock decrement are persisted and whose
\* stock movement is not
C19_Witness ==
  \E r \in Slots :
    /\ reqs[r].route = PostSale /\ reqs[r].pc = "done" /\ reqs[r].status = 500
    /\ \E l \in sales : l.id = reqs[r].insertId
    /\ Cardinality(sales) = 1
    /\ Cardinality(sale_items) = 1
    /\ stock_movements = {}
    /\ \E p \in products : p.id = 1 /\ p.current_stock = 1

----------------------------------------------------------------------------
(* Properties of client creation (SpecClients)                              *)

\* Two addresses are the same address, upper or lower case
SameAddress(e, f) ==
  e = f \/ {e, f} = {"a@b.com", "A@B.com"}

HeldBy(e) == {c \in clients : SameAddress(c.email, e)}

UniqueEmails ==
  \A c, d \in clients : SameAddress(c.email, d.email) => c.id = d.id

\* C17: under strictly sequential requests, POST /clients with an email no
\* client holds answers 201 with the id of the one row it adds; with an email
\* a client holds it answers 400 and leaves clients as it is; no two clients
\* ever share an email
C17_SequentialUniqueEmail ==
  [][/\ UniqueEmails'
     /\ \A r \in Slots :
          LET e == reqs[r].body.email IN
          /\ (Waiting(r, "cc_email") /\ reqs'[r] # reqs[r] /\ reqs'[r].status # 500) =>
               IF HeldBy(e) # {}
                 THEN reqs'[r].pc = "done" /\ reqs'[r].status = 400 /\ clients' = clients
                 ELSE reqs'[r].pc = "cc_insert" /\ clients' = clients
          /\ (Waiting(r, "cc_insert") /\ reqs'[r] # reqs[r] /\ reqs'[r].status # 500) =>
               /\ HeldBy(e) = {}
               /\ reqs'[r].status = 201
               /\ \E c \in clients' :
                    /\ c.id = reqs'[r].insertId
                    /\ SameAddress(c.email, e)
                    /\ c \notin clients
                    /\ clients' = clients \cup {c}
    ]_vars

\* One request created a client; a later one with that client's email was
\* answered 400 after the email lookup
C17_Witness ==
  \E r, s \in Slots :
    /\ reqs[r].route = PostClient /\ reqs[r].status = 201
    /\ reqs[s].route = PostClient /\ reqs[s].status = 400 /\ reqs[s].queries = 2
    /\ Cardinality(clients) = 2
    /\ \E c \in clients : c.id = reqs[r].insertId /\ c.email = "c@d.com"

----------------------------------------------------------------------------
(* Properties of denials and of persistence failures (Spec)                 *)

\* The request was answered 403 because its caller may not do what it asked
Denied(q) == Completed(q) /\ q.status = 403 /\ q.access = "denied"

\* C18: a request that ends in an authorization denial (authorize,
\* checkResourceAccess or the inline check of a handler) was denied before
\* any field validation, any query of the handler and any write
C18_DenialBeforeHandlerLogic ==
  \A r \in Slots :
    Denied(reqs[r]) =>
      /\ ~reqs[r].validated
      /\ ~reqs[r].wrote
      /\ reqs[r].queries = 1 + reqs[r].racQueries
      /\ reqs[r].by # "handler" => ~reqs[r].handlerRan

\* C20: a request one of whose queries threw, the account lookup of
\* authenticateToken included, is answered 500
C20_PersistenceFailureIs500 ==
  \A r \in Slots :
    (Completed(reqs[r]) /\ reqs[r].lookup = "threw") => reqs[r].status = 500

----------------------------------------------------------------------------
(* Properties of deletions and references (SpecRefs)                        *)

\* The rows that carry a client_id
ClientReferences == projects \cup subscriptions \cup invoices

----------------------------------------------------------------------------
(* Properties of the privileged fields of users (SpecUsers)                 *)

\* The row of users with the id of u after the step
After(u) == CHOOSE v \in users' : v.id = u.id

\* The step is the UPDATE of a PUT /users/:id by an actor who is not admin
UpdatesAsNonAdmin(r) ==
  /\ reqs[r].route = PutUser
  /\ Waiting(r, "uu_update")
  /\ reqs'[r].status = 200
  /\ reqs[r].user.role # "admin"

Acting(r) == reqs'[r] # reqs[r]

\* C25: the role of a users row changes only by a request of an admin, its
\* is_active only by a request of an admin or a manager
C25_OnlyAdminChangesRole ==
  [][\A u \in users :
       (\E v \in users' : v.id = u.id) =>
         /\ After(u).role # u.role =>
              \E r \in Slots : Acting(r) /\ reqs[r].user.role = "admin"
         /\ After(u).is_active # u.is_active =>
              \E r \in Slots : Acting(r) /\ reqs[r].user.role \in {"admin", "manager"}
    ]_vars

----------------------------------------------------------------------------
(* Properties of the list of projects (SpecLists)                           *)

\* GET /projects answered the request with its list
Listed(q) == q.route = GetProjects /\ Completed(q) /\ q.status = 200

\* The identity manages the project or has a task in it
RelatedTo(projectId, userId) ==
  \E p \in projects :
    /\ p.id = projectId
    /\ \/ p.manager_id = userId
       \/ \E t \in project_tasks : t.project_id = p.id /\ t.assigned_to = userId

\* C23: the list GET /projects gives an identity that is neither admin nor
\* manager holds only projects the identity manages or has a task in
C23_ListOnlyRelatedProjects ==
  \A r \in Slots :
    (Listed(reqs[r]) /\ reqs[r].user.role \notin {"admin", "manager"})
      => \A id \in reqs[r].list : RelatedTo(id, reqs[r].user.id)

\* checkResourceAccess('project') decided the request for an existing project
Decided(q) ==
  /\ q.route = GetProject /\ Completed(q)
  /\ q.access \in {"granted", "denied"}
  /\ \E p \in projects : p.id = SqlInt(q.id)

\* C29: for every role, a project is in the list GET /projects gives an
\* identity exactly when GET /projects/:id is granted to that identity
C29_ListAndDetailAgree ==
  \A r, s \in Slots :
    (Listed(reqs[r]) /\ Decided(reqs[s]) /\ reqs[s].user = reqs[r].user)
      => (SqlInt(reqs[s].id) \in reqs[r].list <=> reqs[s].access = "granted")

----------------------------------------------------------------------------
(* Properties of the status changes (SpecStatus)                            *)

\* The handler of a subscription status route answers in this step, its
\* queries having answered
AnswersStatusChange(r) ==
  /\ reqs[r].route \in SubscriptionStatusRoutes
  /\ ~Completed(reqs[r]) /\ Completed(reqs'[r])
  /\ reqs'[r].by = "handler" /\ reqs'[r].status # 500

\* C24: suspend, reactivate and cancel answer 404 for a missing subscription,
\* 400 and no change for one already in the target status, and otherwise
\* set the target status, whatever the status was
C24_StatusChange ==
  [][\A r \in Slots :
       AnswersStatusChange(r) =>
         LET rows   == {x \in subscriptions : x.id = SqlInt(reqs[r].id)}
             target == TargetStatus(reqs[r].route)
         IN  IF rows = {}
               THEN reqs'[r].status = 404 /\ subscriptions' = subscriptions
             ELSE IF \E x \in rows : x.status = target
               THEN reqs'[r].status = 400 /\ subscriptions' = subscriptions
             ELSE /\ reqs'[r].status = 200
                  /\ subscriptions' =
                       { IF x \in rows THEN [x EXCEPT !.status = target] ELSE x :
                         x \in subscriptions }
    ]_vars

\* An expired subscription was suspended
C24_Witness ==
  \E r \in Slots :
    /\ reqs[r].route = Suspend /\ reqs[r].status = 200 /\ reqs[r].seen = "expired"
    /\ \E x \in subscriptions : x.id = SqlInt(reqs[r].id) /\ x.status = "suspended"

\* C30: an invoice that is paid stays paid
C30_PaidStaysPaid ==
  [][\A i \in invoices :
       i.status = "paid" => \A j \in invoices' : j.id = i.id => j.status = "paid"
    ]_vars

----------------------------------------------------------------------------
(* Properties of an identity's own requests (SpecOwn)                       *)

\* C26: the employee, who neither manages project 1 nor has a task in it
\* when the program starts, is never let through checkResourceAccess('project')
\* for project 1 while every request is the employee's own
C26_OwnRequestsGiveNoAccess ==
  \A r \in Slots :
    (ResourceType(reqs[r].route) = "project" /\ reqs[r].user.role = "employee"
       /\ SqlInt(reqs[r].id) = 1)
      => reqs[r].access # "granted"

----------------------------------------------------------------------------
(* Properties of the uniqueness checks under concurrent requests (SpecCodes) *)

\* C27: under concurrent POST /invoices requests the store never holds two
\* invoices with the same invoice_number
C27_ConcurrentUniqueInvoiceNumber ==
  \A i, j \in invoices : i.invoice_number = j.invoice_number => i.id = j.id

----------------------------------------------------------------------------
(* Properties of the stock (SpecWrites)                                     *)

\* C28: after any sequence of POST /sales requests the current_stock of
\* every product is non-negative
C28_StockNonNegative ==
  \A p \in products : p.current_stock >= 0

====
